---- MODULE Spec2Model ----
(***************************************************************************)
(* Model of the detection engine of npm-security-scanner:                  *)
(*   - ParallelScanner   (src/src/utils/parallelScanner.js)                *)
(*   - WorkerScanner     (src/src/utils/workerScanner.js)                  *)
(*   - PackageScanner    (src/unnamed/part_008, utils/packageScanner.js)   *)
(*   - PatternMatcher    (src/src/utils/patternMatcher.js, second class)   *)
(*                                                                         *)
(* Strings that the code inspects character by character are modelled as   *)
(* sequences of tokens; a token stands for a run of characters that no     *)
(* operation of the code splits.                                           *)
(***************************************************************************)
EXTENDS Integers, Sequences, FiniteSets, TLC

VARIABLES
  config,          \* Config options read by the scanner and its workers
  whitelistData,   \* PatternMatcher.whitelistData, loaded from data/whitelist.json
  fs,              \* file system: project path -> [packageJson, files]
  pc,              \* position of the scanProjects call / of the pure call
  projects,        \* argument of the running scanProjects call
  isScanning,      \* ParallelScanner.isScanning
  queue,           \* ParallelScanner.queue
  results,         \* ParallelScanner.results
  errors,          \* ParallelScanner.errors
  workerPool,      \* ParallelScanner.workerPool (every Worker ever created)
  activeWorkers,   \* ParallelScanner.activeWorkers (Map, insertion ordered)
  processedCount,  \* ParallelScanner.processedCount
  totalProjects,   \* ParallelScanner.totalProjects
  timers,          \* armed setTimeout timers: <<worker, project>>
  thread,          \* worker thread side: worker -> [st, project]
  chan,            \* events travelling from a worker to the main thread
  exited,          \* workers whose 'exit' event has been emitted
  cleanupPending,  \* cleanupWorkers: workers whose exit promise is unsettled
  returned,        \* value the scanProjects promise resolved with
  uncaught,        \* exception that escaped an event handler of the main thread
  call,            \* input of a pure-function call (whitelist, package scan)
  ret              \* output of that call

vars == <<config, whitelistData, fs, pc, projects, isScanning, queue, results, errors,
          workerPool, activeWorkers, processedCount, totalProjects, timers,
          thread, chan, exited, cleanupPending, returned, uncaught, call, ret>>

orchVars == <<config, whitelistData, fs, pc, projects, isScanning, queue, results, errors,
              workerPool, activeWorkers, processedCount, totalProjects, timers,
              thread, chan, exited, cleanupPending, returned, uncaught>>

(***************************************************************************)
(* Bounds                                                                  *)
(***************************************************************************)
MaxProjects == 2
MaxConcurrency == 2
MaxVerLen == 3

(***************************************************************************)
(* Sequence helpers                                                        *)
(***************************************************************************)
Range(s) == {s[i] : i \in 1..Len(s)}

RECURSIVE SeqFilter(_, _)
SeqFilter(s, keep) ==
  IF s = <<>> THEN <<>>
  ELSE IF Head(s) \in keep THEN <<Head(s)>> \o SeqFilter(Tail(s), keep)
       ELSE SeqFilter(Tail(s), keep)

NULL == "null"
UNDEFINED == "undefined"

(***************************************************************************)
(* Strings as token sequences                                              *)
(***************************************************************************)
\* String.prototype.includes / RegExp.test of a literal pattern: needle occurs in hay
Includes(hay, needle) ==
  \E i \in 0..(Len(hay) - Len(needle)) :
     \A j \in 1..Len(needle) : hay[i + j] = needle[j]

\* String.prototype.indexOf, 1-based; 0 when absent (JavaScript: -1)
IndexOf(hay, needle) ==
  IF Includes(hay, needle)
  THEN CHOOSE i \in 1..(Len(hay) - Len(needle) + 1) :
         /\ \A j \in 1..Len(needle) : hay[i + j - 1] = needle[j]
         /\ \A k \in 1..(i - 1) : \E j \in 1..Len(needle) : hay[k + j - 1] # needle[j]
  ELSE 0

\* String.prototype.split('/'): the pieces between the "/" tokens
RECURSIVE SplitSlash(_)
SplitSlash(s) ==
  LET i == IndexOf(s, <<"/">>)
  IN IF i = 0 THEN <<s>>
     ELSE <<SubSeq(s, 1, i - 1)>> \o SplitSlash(SubSeq(s, i + 1, Len(s)))

\* path.join(a, b)
PathJoin(a, b) == a \o <<"/">> \o b

(***************************************************************************)
(* PatternMatcher                                                          *)
(***************************************************************************)
\* Static signature rules; `lexemes' are the content tokens the regex matches.
initializePatterns ==
  << [name |-> "Ethereum Wallet Hook",
      lexemes |-> {"checkethereumw", "window.ethereum.request"}, severity |-> "HIGH"],
     [name |-> "Crypto Address Replacement",
      lexemes |-> {"0xFc4a4858", "0xfc4a4858", "0x12345678"}, severity |-> "HIGH"],
     [name |-> "WebSocket Data Exfiltration",
      lexemes |-> {"new WebSocket('wss://x')"}, severity |-> "HIGH"],
     [name |-> "Fake NPM Domain", lexemes |-> {"npmjs.help"}, severity |-> "MEDIUM"],
     [name |-> "Fetch/XMLHttpRequest Override",
      lexemes |-> {"window.fetch =", "XMLHttpRequest.prototype.open ="}, severity |-> "HIGH"],
     [name |-> "Malicious Network Interception",
      lexemes |-> {"originalFetch.fetch.replace"}, severity |-> "HIGH"],
     [name |-> "Levenshtein Distance Calculation",
      lexemes |-> {"levenshtein distance address"}, severity |-> "LOW"],
     [name |-> "Malicious Bundle.js Content",
      lexemes |-> {"bundle.js trufflehog"}, severity |-> "HIGH"],
     [name |-> "Tinycolor Attack Bundle.js Structure",
      lexemes |-> {"function runScanner(", "execSync trufflehog filesystem"},
      severity |-> "HIGH"],
     [name |-> "TruffleHog Binary Download",
      lexemes |-> {"trufflehog.zip"}, severity |-> "HIGH"],
     [name |-> "Webhook Exfiltration Endpoint",
      lexemes |-> {"webhook.site/bb8ca5f6"}, severity |-> "HIGH"],
     [name |-> "Cloud Metadata Discovery",
      lexemes |-> {"169.254.169.254"}, severity |-> "HIGH"],
     [name |-> "GitHub Actions Workflow Creation",
      lexemes |-> {"shai-hulud-workflow", ".github/workflows/x.yml"}, severity |-> "HIGH"],
     [name |-> "Environment Variable Theft",
      lexemes |-> {"process.env.NPM_TOKEN"}, severity |-> "HIGH"],
     [name |-> "NPM Token Validation",
      lexemes |-> {"registry.npmjs.org/-/whoami"}, severity |-> "HIGH"],
     [name |-> "GitHub API Token Usage",
      lexemes |-> {"api.github.com/user Authorization token GITHUB_TOKEN"},
      severity |-> "HIGH"],
     [name |-> "Base64 Data Exfiltration",
      lexemes |-> {"base64 -w0 curl -s -X POST"}, severity |-> "HIGH"],
     [name |-> "ExecSync Command Execution",
      lexemes |-> {"execSync trufflehog filesystem"}, severity |-> "HIGH"],
     [name |-> "Suspicious File Creation",
      lexemes |-> {"findings.json", ".github/workflows/x.yml"}, severity |-> "MEDIUM"] >>

\* IOC categories turned into one alternation rule each
DynamicCategories ==
  << [field |-> "domains", name |-> "CDN Malware Hosting"],
     [field |-> "ipAddresses", name |-> "Malicious IP Address"],
     [field |-> "webhookEndpoints", name |-> "Webhook Exfiltration Endpoint"],
     [field |-> "cloudMetadataEndpoints", name |-> "Cloud Metadata Discovery"],
     [field |-> "truffleHogUrls", name |-> "TruffleHog Binary Download"],
     [field |-> "suspiciousWorkflowNames", name |-> "Suspicious GitHub Workflow"],
     [field |-> "environmentVariables", name |-> "Sensitive Environment Variable Access"] >>

\* iocs = {} as passed by WorkerScanner's default constructor argument
EmptyIocs ==
  [domains |-> {}, ipAddresses |-> {}, webhookEndpoints |-> {}, cloudMetadataEndpoints |-> {},
   truffleHogUrls |-> {}, suspiciousWorkflowNames |-> {}, environmentVariables |-> {},
   cryptoAddresses |-> {}]

RECURSIVE DynamicFrom(_, _)
DynamicFrom(iocs, cats) ==
  IF cats = <<>> THEN <<>>
  ELSE (IF iocs[Head(cats).field] # {}
        THEN << [name |-> Head(cats).name, lexemes |-> iocs[Head(cats).field],
                 severity |-> "HIGH"] >>
        ELSE <<>>) \o DynamicFrom(iocs, Tail(cats))

createDynamicPatterns(iocs) == DynamicFrom(iocs, DynamicCategories)

RECURSIVE Match(_, _)
\* Variant: content.match(regex) without the g flag, the first match only
Match_First(content, lexemes) ==
  IF content = <<>> THEN <<>>
  ELSE IF Head(content) \in lexemes THEN <<Head(content)>>
       ELSE Match(Tail(content), lexemes)

\* content.match(regex) with the g flag: the matched tokens, in order
Match(content, lexemes) ==
  IF content = <<>> THEN <<>>
  ELSE (IF Head(content) \in lexemes THEN <<Head(content)>> ELSE <<>>)
       \o Match(Tail(content), lexemes)

RECURSIVE ScanRules(_, _, _)
ScanRules(content, file, rules) ==
  IF rules = <<>> THEN <<>>
  ELSE LET matches == Match(content, Head(rules).lexemes)
       IN (IF matches # <<>>
           THEN << [file |-> file, pattern |-> Head(rules).name,
                    severity |-> Head(rules).severity, matches |-> Len(matches)] >>
           ELSE <<>>) \o ScanRules(content, file, Tail(rules))

\* String.prototype.toLowerCase on an address token
ToLowerCase(address) == IF address = "0xFc4a4858" THEN "0xfc4a4858" ELSE address

isSuspiciousAddress(address, iocs) ==
  IF iocs.cryptoAddresses = {} THEN FALSE
  ELSE ToLowerCase(address) \in iocs.cryptoAddresses

RECURSIVE ScanAddresses(_, _, _)
ScanAddresses(addresses, file, iocs) ==
  IF addresses = <<>> THEN <<>>
  ELSE (IF isSuspiciousAddress(Head(addresses), iocs)
        THEN << [file |-> file, pattern |-> "Suspicious Address",
                 severity |-> "HIGH", matches |-> 1] >>
        ELSE <<>>) \o ScanAddresses(Tail(addresses), file, iocs)

\* Variant: only the rules built from the IOC lists and the address list are applied
scanFileContent_DynamicOnly(content, filePath, iocs) ==
  ScanRules(content, filePath, createDynamicPatterns(iocs))
  \o ScanAddresses(Match(content, {"0xFc4a4858", "0xfc4a4858", "0x12345678"}), filePath, iocs)

scanFileContent(content, filePath, iocs) ==
  ScanRules(content, filePath, initializePatterns)
  \o ScanRules(content, filePath, createDynamicPatterns(iocs))
  \o ScanAddresses(Match(content, {"0xFc4a4858", "0xfc4a4858", "0x12345678"}), filePath, iocs)

\* Rules applied to YAML files; only inside .github/workflows/
WorkflowPatterns ==
  << [name |-> "Suspicious Workflow Name",
      lexemes |-> {"shai-hulud-workflow", "workflow.yml"}, severity |-> "HIGH"],
     [name |-> "Webhook Exfiltration in Workflow",
      lexemes |-> {"webhook.site/bb8ca5f6"}, severity |-> "HIGH"],
     [name |-> "Base64 Data Exfiltration in Workflow",
      lexemes |-> {"base64 -w0 curl -s -X POST"}, severity |-> "HIGH"],
     [name |-> "Suspicious File Access in Workflow",
      lexemes |-> {"findings.json"}, severity |-> "HIGH"],
     [name |-> "Environment Variable Access in Workflow",
      lexemes |-> {"${{ secrets.NPM_TOKEN }}"}, severity |-> "HIGH"] >>

scanYamlFileContent(content, filePath) ==
  IF Includes(filePath, <<".github", "/", "workflows", "/">>)
  THEN ScanRules(content, filePath, WorkflowPatterns)
  ELSE <<>>

\* whitelistPatterns: one entry per (library, pattern), in file order
RECURSIVE PatternsOf(_, _)
PatternsOf(library, patterns) ==
  IF patterns = <<>> THEN <<>>
  ELSE << [name |-> library.name, pattern |-> Head(patterns), library |-> library] >>
       \o PatternsOf(library, Tail(patterns))

RECURSIVE initializeWhitelistPatterns(_)
initializeWhitelistPatterns(libraries) ==
  IF libraries = <<>> THEN <<>>
  ELSE PatternsOf(Head(libraries), Head(libraries).patterns)
       \o initializeWhitelistPatterns(Tail(libraries))

\* Array.prototype.find over the libraries: index of the first hit, 0 if none
RECURSIVE FindLibrary(_, _, _)
FindLibrary(libraries, packageName, i) ==
  IF i > Len(libraries) THEN 0
  ELSE IF libraries[i].name = packageName \/ Includes(packageName, libraries[i].name)
       THEN i
       ELSE FindLibrary(libraries, packageName, i + 1)

isVersionWhitelisted(wl, packageName, version) ==
  IF ~wl.versionChecks.enabled THEN TRUE
  ELSE LET i == FindLibrary(wl.libraries, packageName, 1)
       IN IF i = 0 THEN FALSE
          ELSE IF wl.libraries[i].versions.all THEN TRUE
          ELSE IF wl.libraries[i].versions.hasRanges THEN TRUE
          ELSE FALSE

NoPackageInfo == [isNull |-> TRUE, name |-> <<>>, version |-> <<>>]

extractPackageInfoFromPath(filePath) ==
  LET nodeModulesIndex == IndexOf(filePath, <<"node_modules", "/">>)
      relativePath == SubSeq(filePath, nodeModulesIndex + 2, Len(filePath))
      pathParts == SplitSlash(relativePath)
  IN IF nodeModulesIndex = 0 THEN NoPackageInfo
     ELSE IF Len(pathParts) < 2 THEN NoPackageInfo
     ELSE IF pathParts[1] # <<>> /\ pathParts[1][1] = "@" /\ Len(pathParts) >= 3
          THEN [isNull |-> FALSE, name |-> pathParts[1] \o <<"/">> \o pathParts[2],
                version |-> pathParts[3]]
          ELSE [isNull |-> FALSE, name |-> pathParts[1], version |-> pathParts[2]]

\* Index into whitelistPatterns of the returned entry; 0 stands for null
RECURSIVE WhitelistedFrom(_, _, _, _)
WhitelistedFrom(wl, whitelistPatterns, filePath, i) ==
  IF i > Len(whitelistPatterns) THEN 0
  ELSE IF Includes(filePath, whitelistPatterns[i].pattern)
       THEN IF wl.versionChecks.enabled
            THEN LET packageInfo == extractPackageInfoFromPath(filePath)
                 IN IF ~packageInfo.isNull
                       /\ ~isVersionWhitelisted(wl, packageInfo.name, packageInfo.version)
                    THEN WhitelistedFrom(wl, whitelistPatterns, filePath, i + 1)
                    ELSE i
            ELSE i
       ELSE WhitelistedFrom(wl, whitelistPatterns, filePath, i + 1)

isWhitelisted(wl, filePath) ==
  WhitelistedFrom(wl, initializeWhitelistPatterns(wl.libraries), filePath, 1)

\* One pass of scanJavaScriptFiles over the files glob returned for one extension
\* group; acc = [issues, filesScanned, evaluated]; `evaluated' lists the files
\* whose content was handed to the signature rules.
RECURSIVE ScanPass(_, _, _, _, _, _)
ScanPass(projectPath, files, ext, iocs, wl, acc) ==
  IF files = <<>> THEN acc
  ELSE LET file == Head(files)
           filePath == PathJoin(projectPath, file.rel)
           rest == Tail(files)
       IN IF file.ext # ext \/ file.kind = "dir"
          THEN ScanPass(projectPath, rest, ext, iocs, wl, acc)
          ELSE IF isWhitelisted(wl, filePath) # 0 \/ file.kind = "unreadable"
          THEN ScanPass(projectPath, rest, ext, iocs, wl,
                        [acc EXCEPT !.filesScanned = @ + 1])
          ELSE ScanPass(projectPath, rest, ext, iocs, wl,
                 [issues |-> acc.issues \o
                      (IF ext = "js" THEN scanFileContent(file.content, filePath, iocs)
                       ELSE scanYamlFileContent(file.content, filePath)),
                  filesScanned |-> acc.filesScanned + 1,
                  evaluated |-> Append(acc.evaluated, filePath)])

\* Names beginning with a dot: glob without the dot option matches neither
\* them nor anything below them
DotNames == {".github", ".cache"}

\* ignorePatterns 'coverage/**', 'dist/**', 'build/**', 'dev-dist/**'
IgnoredTopLevel == {"coverage", "dist", "build", "dev-dist"}

\* Directory and file names matched by the default test file patterns
\* ('**/test/**', '**/tests/**', '**/__tests__/**', '**/*.test.*', '**/*.spec.*',
\* '**/test.*', '**/spec.*', '**/test-*', '**/spec-*', '**/*.test', '**/*.spec')
TestDirNames == {"test", "tests", "__tests__"}
TestBaseNames == {"app.test.js", "app.spec.js", "test.js", "spec.js", "test-utils.js"}

IsTestPath(parts) ==
  \/ \E i \in 1..(Len(parts) - 1) : parts[i] # <<>> /\ parts[i][1] \in TestDirNames
  \/ parts[Len(parts)] # <<>> /\ parts[Len(parts)][1] \in TestBaseNames

\* Whether glob('**/*.{...}', {cwd: projectPath, ignore: ignorePatterns}) lists
\* the entry
Globbed(file, ext, excludeNodeModules, excludeTestFiles) ==
  LET parts == SplitSlash(file.rel)
  IN /\ file.ext = ext
     /\ \A i \in 1..Len(parts) : parts[i] # <<>> => parts[i][1] \notin DotNames
     /\ ~(Len(parts) >= 2 /\ parts[1] # <<>> /\ parts[1][1] \in IgnoredTopLevel)
     /\ ~(excludeNodeModules /\ Len(parts) >= 2 /\ parts[1] = <<"node_modules">>)
     /\ ~(excludeTestFiles /\ IsTestPath(parts))

RECURSIVE glob(_, _, _, _)
glob(files, ext, excludeNodeModules, excludeTestFiles) ==
  IF files = <<>> THEN <<>>
  ELSE (IF Globbed(Head(files), ext, excludeNodeModules, excludeTestFiles)
        THEN <<Head(files)>> ELSE <<>>)
       \o glob(Tail(files), ext, excludeNodeModules, excludeTestFiles)

\* excludeTestFiles stands for config && config.get('security.excludeTestFiles')
scanJavaScriptFiles(projectPath, files, iocs, wl, excludeNodeModules, excludeTestFiles) ==
  ScanPass(projectPath, glob(files, "yaml", excludeNodeModules, excludeTestFiles),
           "yaml", iocs, wl,
    ScanPass(projectPath, glob(files, "js", excludeNodeModules, excludeTestFiles),
             "js", iocs, wl,
             [issues |-> <<>>, filesScanned |-> 0, evaluated |-> <<>>]))

(***************************************************************************)
(* PackageScanner                                                          *)
(***************************************************************************)
\* The project paths of the model and path.basename of each
ProjectPaths == <<"/w/a/app", "/w/b/app", "/w/b/lib", "/w/c/web", "/w/c/api">>

Basename(projectPath) ==
  CASE projectPath \in {"/w/a/app", "/w/b/app"} -> "app"
    [] projectPath = "/w/b/lib" -> "lib"
    [] projectPath = "/w/c/web" -> "web"
    [] OTHER -> "api"

\* this.vulnerableVersions: package name -> listed versions (own properties)
vulnerableVersions ==
  [chalk |-> {<<"5.6.1">>}, debug |-> {<<"4.4.2">>}]

\* Property names every object inherits from Object.prototype
ObjectPrototypeKeys == {"constructor", "toString"}

\* Variant: only a leading caret is removed
CleanVersion_CaretOnly(version) ==
  IF version # <<>> /\ Head(version) = "^" THEN Tail(version) ELSE version

\* version.replace(/^[\^~]/, '')
CleanVersion(version) ==
  IF version # <<>> /\ Head(version) \in {"^", "~"} THEN Tail(version) ELSE version

\* [threw, value]: threw = TRUE is the TypeError of calling .includes on an
\* inherited property that is not an array
isVulnerableVersion(packageName, version) ==
  IF packageName \in DOMAIN vulnerableVersions
  THEN [threw |-> FALSE, value |-> CleanVersion(version) \in vulnerableVersions[packageName]]
  ELSE IF packageName \in ObjectPrototypeKeys
       THEN [threw |-> TRUE, value |-> FALSE]
       ELSE [threw |-> FALSE, value |-> FALSE]

\* JavaScript objects with string keys: sequences of [k, v], keys unique
Keys(obj) == {obj[i].k : i \in 1..Len(obj)}
Get(obj, key) == (CHOOSE i \in 1..Len(obj) : obj[i].k = key)

RECURSIVE Overwrite(_, _)
Overwrite(a, b) ==
  IF a = <<>> THEN <<>>
  ELSE << (IF Head(a).k \in Keys(b) THEN b[Get(b, Head(a).k)] ELSE Head(a)) >>
       \o Overwrite(Tail(a), b)

RECURSIVE Fresh(_, _)
Fresh(a, b) ==
  IF b = <<>> THEN <<>>
  ELSE (IF Head(b).k \in Keys(a) THEN <<>> ELSE <<Head(b)>>) \o Fresh(a, Tail(b))

\* { ...a, ...b }
Spread(a, b) == Overwrite(a, b) \o Fresh(a, b)

RECURSIVE CompromisedIn(_, _)
CompromisedIn(projectPath, entries) ==
  IF entries = <<>> THEN <<>>
  ELSE (IF isVulnerableVersion(Head(entries).k, Head(entries).v).value
        THEN << [project |-> Basename(projectPath), package |-> Head(entries).k,
                 version |-> Head(entries).v, severity |-> "HIGH"] >>
        ELSE <<>>) \o CompromisedIn(projectPath, Tail(entries))

\* What scanPackageFiles returns: the bare array [] (shape "array", no
\* properties) or the object {compromisedPackages, packagesChecked}
EmptyArray == [shape |-> "array", compromisedPackages |-> <<>>, packagesChecked |-> 0]

\* Variant: only devDependencies are checked
scanPackageFiles_DevOnly(projectPath, packageJson) ==
  IF packageJson.kind = "missing" THEN EmptyArray
  ELSE IF packageJson.kind = "malformed" THEN EmptyArray
  ELSE [shape |-> "object",
        compromisedPackages |-> CompromisedIn(projectPath, packageJson.devDependencies),
        packagesChecked |-> Len(packageJson.devDependencies)]

scanPackageFiles(projectPath, packageJson) ==
  IF packageJson.kind = "missing" THEN EmptyArray
  ELSE IF packageJson.kind = "malformed" THEN EmptyArray
  ELSE LET allDeps == Spread(packageJson.dependencies, packageJson.devDependencies)
       IN IF \E i \in 1..Len(allDeps) : isVulnerableVersion(allDeps[i].k, allDeps[i].v).threw
          THEN EmptyArray
          ELSE [shape |-> "object",
                compromisedPackages |-> CompromisedIn(projectPath, allDeps),
                packagesChecked |-> Len(allDeps)]

(***************************************************************************)
(* WorkerScanner                                                           *)
(***************************************************************************)
NoResult ==
  [project |-> NULL, path |-> NULL, compromisedPackages |-> <<>>, maliciousCode |-> <<>>,
   filesScanned |-> 0, packagesChecked |-> 0, issuesFound |-> 0]

\* [threw, error, value]: scanProject either returns a ProjectResult or throws
scanProject(cfg, wl, projectPath, fsProject) ==
  LET packageResults == scanPackageFiles(projectPath, fsProject.packageJson)
      jsResults == IF cfg.scanMaliciousCode
                   THEN \* called with five arguments: config is null
                        scanJavaScriptFiles(<<projectPath>>, fsProject.files, EmptyIocs, wl,
                                            FALSE, FALSE)
                   ELSE [issues |-> <<>>, filesScanned |-> 0, evaluated |-> <<>>]
      compromised == IF cfg.scanCompromisedPackages
                     THEN packageResults.compromisedPackages ELSE <<>>
  IN IF cfg.scanCompromisedPackages /\ packageResults.shape = "array"
     THEN \* push(...undefined): spread of a non-iterable
          [threw |-> TRUE, error |-> "TypeError", value |-> NoResult]
     ELSE [threw |-> FALSE, error |-> NULL,
           value |-> [project |-> Basename(projectPath), path |-> projectPath,
                      compromisedPackages |-> compromised,
                      maliciousCode |-> jsResults.issues,
                      filesScanned |-> jsResults.filesScanned,
                      packagesChecked |-> IF cfg.scanCompromisedPackages
                                          THEN packageResults.packagesChecked ELSE 0,
                      issuesFound |-> Len(compromised) + Len(jsResults.issues)]]

\* packageScanner.validatePackageJson(projectPath): the validation issues
validatePackageJson(projectPath, packageJson) ==
  IF packageJson.kind = "valid" /\ ~packageJson.wellFormed
  THEN << [project |-> Basename(projectPath), type |-> "Invalid package.json",
           severity |-> "MEDIUM"] >>
  ELSE <<>>

\* NPMSecurityScanner.scanProject, the scan of one project on the main thread:
\* summary.packagesChecked is the number of compromised packages
NPMSecurityScanner_scanProject(cfg, wl, projectPath, fsProject) ==
  LET packageResults == scanPackageFiles(projectPath, fsProject.packageJson)
      validationResults == validatePackageJson(projectPath, fsProject.packageJson)
      jsResults == IF cfg.scanMaliciousCode
                   THEN scanJavaScriptFiles(<<projectPath>>, fsProject.files, EmptyIocs, wl,
                                            FALSE, FALSE)
                   ELSE [issues |-> <<>>, filesScanned |-> 0, evaluated |-> <<>>]
      compromised == IF cfg.scanCompromisedPackages
                     THEN packageResults.compromisedPackages ELSE <<>>
  IN IF cfg.scanCompromisedPackages /\ packageResults.shape = "array"
     THEN [threw |-> TRUE, error |-> "TypeError", value |-> NoResult]
     ELSE [threw |-> FALSE, error |-> NULL,
           value |-> [project |-> Basename(projectPath), path |-> projectPath,
                      compromisedPackages |-> compromised,
                      maliciousCode |-> jsResults.issues,
                      packageValidationIssues |-> validationResults,
                      filesScanned |-> jsResults.filesScanned,
                      packagesChecked |-> Len(compromised),
                      issuesFound |-> Len(compromised) + Len(jsResults.issues)
                                        + Len(validationResults)]]

(***************************************************************************)
(* ParallelScanner                                                         *)
(***************************************************************************)
\* Position of a worker in the activeWorkers Map; 0 when it has no entry
RECURSIVE InfoIndex(_, _, _)
InfoIndex(aw, worker, i) ==
  IF i > Len(aw) THEN 0
  ELSE IF aw[i].worker = worker THEN i ELSE InfoIndex(aw, worker, i + 1)

\* Map.prototype.delete
RECURSIVE MapDelete(_, _)
MapDelete(aw, worker) ==
  IF aw = <<>> THEN <<>>
  ELSE IF Head(aw).worker = worker THEN Tail(aw)
       ELSE <<Head(aw)>> \o MapDelete(Tail(aw), worker)

\* Position of the first idle worker in Map order; 0 stands for null
RECURSIVE findIdleWorker(_, _)
findIdleWorker(aw, i) ==
  IF i > Len(aw) THEN 0
  ELSE IF aw[i].status = "idle" THEN i ELSE findIdleWorker(aw, i + 1)

\* worker.postMessage({type: 'scan', project}): a live thread starts the scan,
\* a message to a thread that has ended is dropped
PostScan(th, worker, project) ==
  IF th[worker].st = "ready"
  THEN [th EXCEPT ![worker] = [st |-> "scanning", project |-> project]]
  ELSE th

\* Variant: the thread is left running
Terminate_Noop(th, ch, worker) == [thread |-> th, chan |-> ch]

\* worker.terminate(): the thread stops and its 'exit' event is queued
Terminate(th, ch, worker) ==
  IF th[worker].st = "dead" THEN [thread |-> th, chan |-> ch]
  ELSE [thread |-> [th EXCEPT ![worker] = [st |-> "dead", project |-> NULL]],
        chan |-> [ch EXCEPT ![worker] = Append(@, [type |-> "exit", data |-> NoResult,
                                                   error |-> NULL])]]

\* Variant: the project is taken from the end of the queue
assignWork_Lifo(q, aw, tm, th, count, total) ==
  IF q = <<>>
  THEN [queue |-> q, activeWorkers |-> aw, timers |-> tm, thread |-> th,
        resolved |-> (\A i \in 1..Len(aw) : aw[i].status = "idle") /\ count = total]
  ELSE LET i == findIdleWorker(aw, 1)
       IN IF i = 0
          THEN [queue |-> q, activeWorkers |-> aw, timers |-> tm, thread |-> th,
                resolved |-> FALSE]
          ELSE [queue |-> SubSeq(q, 1, Len(q) - 1),
                activeWorkers |-> [aw EXCEPT ![i] = [@ EXCEPT !.status = "working",
                                                              !.project = q[Len(q)],
                                                              !.timeoutId = TRUE]],
                timers |-> tm \cup {<<aw[i].worker, q[Len(q)]>>},
                thread |-> PostScan(th, aw[i].worker, q[Len(q)]),
                resolved |-> FALSE]

\* assignWork on the given queue / Map / timers / threads
assignWork(q, aw, tm, th, count, total) ==
  IF q = <<>>
  THEN [queue |-> q, activeWorkers |-> aw, timers |-> tm, thread |-> th,
        resolved |-> (\A i \in 1..Len(aw) : aw[i].status = "idle") /\ count = total]
  ELSE LET i == findIdleWorker(aw, 1)
       IN IF i = 0
          THEN [queue |-> q, activeWorkers |-> aw, timers |-> tm, thread |-> th,
                resolved |-> FALSE]
          ELSE \* assignProjectToWorker
               [queue |-> Tail(q),
                activeWorkers |-> [aw EXCEPT ![i] = [@ EXCEPT !.status = "working",
                                                              !.project = Head(q),
                                                              !.timeoutId = TRUE]],
                timers |-> tm \cup {<<aw[i].worker, Head(q)>>},
                thread |-> PostScan(th, aw[i].worker, Head(q)),
                resolved |-> FALSE]

\* The value scanProjects resolves with
Aggregate(res, errs) ==
  [settled |-> TRUE, results |-> res, errors |-> errs,
   summary |-> [totalProjects |-> Len(projects'), scanned |-> Len(res),
                failed |-> Len(errs), concurrency |-> config.maxConcurrency]]

NotSettled ==
  [settled |-> FALSE, results |-> <<>>, errors |-> <<>>,
   summary |-> [totalProjects |-> 0, scanned |-> 0, failed |-> 0, concurrency |-> 0]]

RECURSIVE TerminateAll(_, _, _)
\* Variant: only the first worker of workerPool is terminated
TerminateAll_HeadOnly(th, ch, pool) ==
  IF pool = <<>> THEN [thread |-> th, chan |-> ch]
  ELSE Terminate(th, ch, Head(pool))

\* cleanupWorkers, synchronous part: terminate every worker of workerPool and
\* wait for an 'exit' event of each
TerminateAll(th, ch, pool) ==
  IF pool = <<>> THEN [thread |-> th, chan |-> ch]
  ELSE LET t == Terminate(th, ch, Head(pool))
       IN TerminateAll(t.thread, t.chan, Tail(pool))

\* Tail of every event handler: assignWork, then, if it resolved the queue
\* promise, the continuation of scanProjects up to its next suspension.
\* phase is the position of scanProjects when the handler runs.
Continue(phase, q, aw, tm, th, ch, pool, res, errs, count, total) ==
  LET a == assignWork(q, aw, tm, th, count, total)
      t == TerminateAll(a.thread, ch, pool)
  IN /\ queue' = a.queue
     /\ timers' = a.timers
     /\ results' = res
     /\ errors' = errs
     /\ processedCount' = count
     /\ totalProjects' = total
     /\ uncaught' = uncaught
     /\ IF a.resolved /\ phase = "processing"
        THEN /\ thread' = t.thread
             /\ chan' = t.chan
             /\ IF pool = <<>>
                THEN /\ pc' = "returned"
                     /\ cleanupPending' = {}
                     /\ workerPool' = <<>>
                     /\ activeWorkers' = <<>>
                     /\ isScanning' = FALSE
                     /\ returned' = Aggregate(res, errs)
                ELSE /\ pc' = "cleanup"
                     /\ cleanupPending' = Range(pool)
                     /\ workerPool' = pool
                     /\ activeWorkers' = a.activeWorkers
                     /\ isScanning' = TRUE
                     /\ returned' = returned
        ELSE /\ thread' = a.thread
             /\ chan' = ch
             /\ pc' = phase
             /\ cleanupPending' = cleanupPending
             /\ workerPool' = pool
             /\ activeWorkers' = a.activeWorkers
             /\ isScanning' = (phase # "returned")
             /\ returned' = IF returned.settled
                            THEN [returned EXCEPT !.results = res, !.errors = errs]
                            ELSE returned

\* An exception escapes a handler of the main thread: the process ends
Throw(exception, ch) ==
  /\ uncaught' = exception
  /\ pc' = "crashed"
  /\ chan' = ch
  /\ UNCHANGED <<config, whitelistData, fs, call, ret, projects, isScanning, queue, results,
                 errors, workerPool, activeWorkers, processedCount, totalProjects, timers,
                 thread, exited, cleanupPending, returned>>

Running == pc \in {"processing", "cleanup", "returned"}

Min(a, b) == IF a < b THEN a ELSE b

NoEvent == [type |-> "exit", data |-> NoResult, error |-> NULL]

\* new Worker(...): its entry in the activeWorkers Map
IdleInfo(worker, workerId) ==
  [worker |-> worker, status |-> "idle", project |-> NULL, timeoutId |-> FALSE,
   workerId |-> workerId]

\* scanProjects(projects) up to its first suspension: initializeWorkerPool,
\* processQueue and the first assignWork
ScanProjects(P) ==
  /\ pc = "idle"
  /\ ~isScanning
  /\ LET input == SubSeq(ProjectPaths, 1, P)
         workerCount == Min(config.maxConcurrency, P)
         base == Len(workerPool)
         ids == {base + i : i \in 0..(workerCount - 1)}
         pool == workerPool \o [i \in 1..workerCount |-> base + i - 1]
         aw == activeWorkers \o [i \in 1..workerCount |-> IdleInfo(base + i - 1, -1)]
         th == [w \in DOMAIN thread \cup ids |->
                  IF w \in ids THEN [st |-> "ready", project |-> NULL] ELSE thread[w]]
         ch == [w \in DOMAIN chan \cup ids |-> IF w \in ids THEN <<>> ELSE chan[w]]
     IN /\ projects' = input
        /\ exited' = exited
        /\ Continue("processing", input, aw, timers, th, ch, pool, <<>>, <<>>, 0, P)
  /\ UNCHANGED <<config, whitelistData, fs, call, ret>>

\* Worker thread: scanner.scanProject(message.project) returns or throws, and
\* the handler posts {type: 'result'} or {type: 'error'}. The scan of a project
\* with hangs = TRUE (a file on which a signature regex backtracks without end)
\* never returns.
WorkerPost(w) ==
  /\ Running
  /\ w \in DOMAIN thread
  /\ thread[w].st = "scanning"
  /\ ~fs[thread[w].project].hangs
  /\ LET r == scanProject(config, whitelistData, thread[w].project, fs[thread[w].project])
     IN chan' = [chan EXCEPT ![w] =
                   Append(@, IF r.threw
                             THEN [type |-> "error", data |-> NoResult, error |-> r.error]
                             ELSE [type |-> "result", data |-> r.value, error |-> NULL])]
  /\ thread' = [thread EXCEPT ![w] = [st |-> "ready", project |-> NULL]]
  /\ UNCHANGED <<config, whitelistData, fs, call, ret, pc, projects, isScanning, queue,
                 results, errors, workerPool, activeWorkers, processedCount, totalProjects,
                 timers, exited, cleanupPending, returned, uncaught>>

\* Worker thread dies of an exception outside the handler's try block (out of
\* memory): the main thread gets the Worker's 'error' event, then its 'exit'
WorkerCrash(w) ==
  /\ Running
  /\ w \in DOMAIN thread
  /\ thread[w].st = "scanning"
  /\ chan' = [chan EXCEPT ![w] =
                @ \o << [type |-> "uncaught", data |-> NoResult, error |-> "Error"],
                        [type |-> "exit", data |-> NoResult, error |-> NULL] >>]
  /\ thread' = [thread EXCEPT ![w] = [st |-> "dead", project |-> NULL]]
  /\ UNCHANGED <<config, whitelistData, fs, call, ret, pc, projects, isScanning, queue,
                 results, errors, workerPool, activeWorkers, processedCount, totalProjects,
                 timers, exited, cleanupPending, returned, uncaught>>

\* Variant: the timer is left armed
ClearTimeout_Kept(tm, workerInfo) == tm

\* clearTimeout(workerInfo.timeoutId) when a timer is recorded for the worker
ClearTimeout(tm, workerInfo) ==
  IF workerInfo.timeoutId THEN tm \ {<<workerInfo.worker, workerInfo.project>>} ELSE tm

\* this.results.push({project: workerInfo.project, ...data, workerId, duration}):
\* data.project (the basename) overrides workerInfo.project
RecordResult(res, data, workerInfo) ==
  Append(res, [project |-> data.project, path |-> data.path,
               compromisedPackages |-> data.compromisedPackages,
               maliciousCode |-> data.maliciousCode,
               filesScanned |-> data.filesScanned,
               packagesChecked |-> data.packagesChecked,
               issuesFound |-> data.issuesFound,
               workerId |-> workerInfo.workerId])

\* this.errors.push({project, error: error.message, stack, workerId})
RecordError(errs, error, workerInfo) ==
  Append(errs, [project |-> IF workerInfo.project = NULL THEN "unknown"
                            ELSE workerInfo.project,
                error |-> error, workerId |-> workerInfo.workerId])

\* Variant: the timeout is counted but no error record is pushed
RecordTimeout_Dropped(errs, project) == errs

\* this.errors.push({project, error: 'Worker timeout', timeout})
RecordTimeout(errs, project) ==
  Append(errs, [project |-> project, error |-> "Worker timeout", workerId |-> -1])

\* Variant: the worker keeps its status and project
ResetWorker_Busy(aw, i) == aw

\* "Reset worker": status idle, startTime null, project null
ResetWorker(aw, i) ==
  [aw EXCEPT ![i] = [@ EXCEPT !.status = "idle", !.project = NULL, !.timeoutId = FALSE]]

\* createReplacementWorker: a new Worker at the end of workerPool and of the Map
createReplacementWorker(aw, pool) ==
  [activeWorkers |-> Append(aw, IdleInfo(Len(pool), Len(pool))),
   workerPool |-> Append(pool, Len(pool))]

\* 'message' event {type: 'result'}: handleWorkerMessage -> handleWorkerResult
HandleResult(w) ==
  /\ Running
  /\ w \in DOMAIN chan
  /\ chan[w] # <<>>
  /\ Head(chan[w]).type = "result"
  /\ LET data == Head(chan[w]).data
         ch == [chan EXCEPT ![w] = Tail(@)]
         i == InfoIndex(activeWorkers, w, 1)
     IN IF i = 0
        THEN \* workerInfo is undefined: workerInfo.timeoutId throws
             Throw("TypeError", ch)
        ELSE LET workerInfo == activeWorkers[i]
                 tm == ClearTimeout(timers, workerInfo)
                 res == RecordResult(results, data, workerInfo)
                 aw == ResetWorker(activeWorkers, i)
             IN /\ UNCHANGED <<config, whitelistData, fs, call, ret, projects, exited>>
                /\ Continue(pc, queue, aw, tm, thread, ch, workerPool, res, errors,
                            processedCount + 1, totalProjects)

\* 'message' event {type: 'error'} or the Worker's 'error' event: handleWorkerError
HandleError(w) ==
  /\ Running
  /\ w \in DOMAIN chan
  /\ chan[w] # <<>>
  /\ Head(chan[w]).type \in {"error", "uncaught"}
  /\ LET error == Head(chan[w]).error
         ch == [chan EXCEPT ![w] = Tail(@)]
         i == InfoIndex(activeWorkers, w, 1)
     IN IF i = 0
        THEN Throw("TypeError", ch)
        ELSE LET workerInfo == activeWorkers[i]
                 tm == ClearTimeout(timers, workerInfo)
                 errs == RecordError(errors, error, workerInfo)
                 aw == ResetWorker(activeWorkers, i)
             IN /\ UNCHANGED <<config, whitelistData, fs, call, ret, projects, exited>>
                /\ Continue(pc, queue, aw, tm, thread, ch, workerPool, results, errs,
                            processedCount + 1, totalProjects)

\* The timer armed by assignProjectToWorker fires: handleWorkerTimeout,
\* including createReplacementWorker
HandleTimeout(w, project) ==
  /\ Running
  /\ <<w, project>> \in timers
  /\ LET t == Terminate(thread, chan, w)
         r == createReplacementWorker(MapDelete(activeWorkers, w), workerPool)
         aw == r.activeWorkers
         pool == r.workerPool
         created == Range(pool) \ DOMAIN thread
         th == [x \in DOMAIN thread \cup created |->
                  IF x \in created THEN [st |-> "ready", project |-> NULL]
                  ELSE t.thread[x]]
         ch == [x \in DOMAIN chan \cup created |->
                  IF x \in created THEN <<>> ELSE t.chan[x]]
         errs == RecordTimeout(errors, project)
     IN /\ UNCHANGED <<config, whitelistData, fs, call, ret, projects, exited>>
        /\ Continue(pc, queue, aw, timers \ {<<w, project>>}, th, ch, pool, results, errs,
                    processedCount + 1, totalProjects)

\* The Worker's 'exit' event: handleWorkerExit, then the listener cleanupWorkers
\* registered (if any), then, once every exit promise is settled, the rest of
\* scanProjects
HandleExit(w) ==
  /\ Running
  /\ w \in DOMAIN chan
  /\ chan[w] # <<>>
  /\ Head(chan[w]).type = "exit"
  /\ UNCHANGED <<config, whitelistData, fs, call, ret, projects, queue, results, errors,
                 processedCount, totalProjects, timers, thread, uncaught>>
  /\ LET aw == MapDelete(activeWorkers, w)
         pending == IF pc = "cleanup" THEN cleanupPending \ {w} ELSE cleanupPending
         done == pc = "cleanup" /\ pending = {}
     IN /\ chan' = [chan EXCEPT ![w] = Tail(@)]
        /\ exited' = exited \cup {w}
        /\ cleanupPending' = pending
        /\ activeWorkers' = IF done THEN <<>> ELSE aw
        /\ workerPool' = IF done THEN <<>> ELSE workerPool
        /\ pc' = IF done THEN "returned" ELSE pc
        /\ isScanning' = IF done THEN FALSE ELSE isScanning
        /\ returned' = IF done THEN Aggregate(results, errors) ELSE returned

(***************************************************************************)
(* State after construction, and the scan of a batch                       *)
(***************************************************************************)
\* loadWhitelistData's fallback when data/whitelist.json cannot be read
EmptyWhitelist == [libraries |-> <<>>, versionChecks |-> [enabled |-> FALSE]]

\* package.json of a project: kind says whether the file exists and parses;
\* wellFormed whether Validator.validatePackageJson finds no error in it
NoPackageJson ==
  [kind |-> "missing", dependencies |-> <<>>, devDependencies |-> <<>>,
   peerDependencies |-> <<>>, wellFormed |-> FALSE]
MalformedPackageJson ==
  [kind |-> "malformed", dependencies |-> <<>>, devDependencies |-> <<>>,
   peerDependencies |-> <<>>, wellFormed |-> FALSE]
ChalkPackageJson ==
  [kind |-> "valid", dependencies |-> << [k |-> "chalk", v |-> <<"5.6.1">>] >>,
   devDependencies |-> <<>>, peerDependencies |-> <<>>, wellFormed |-> TRUE]

\* Project directories the batch may meet
ProjectSamples ==
  { [packageJson |-> m, files |-> <<>>, hangs |-> FALSE] :
      m \in {NoPackageJson, MalformedPackageJson, ChalkPackageJson} }
  \cup { [packageJson |-> ChalkPackageJson, files |-> <<>>, hangs |-> TRUE] }

NoCall == [op |-> "none"]
NoRet == [op |-> "none"]

Constructed ==
  /\ projects = <<>>
  /\ isScanning = FALSE
  /\ queue = <<>>
  /\ results = <<>>
  /\ errors = <<>>
  /\ workerPool = <<>>
  /\ activeWorkers = <<>>
  /\ processedCount = 0
  /\ totalProjects = 0
  /\ timers = {}
  /\ thread = << >>
  /\ chan = << >>
  /\ exited = {}
  /\ cleanupPending = {}
  /\ returned = NotSettled
  /\ uncaught = NULL

Init ==
  /\ config \in [maxConcurrency : 1..MaxConcurrency,
                 scanCompromisedPackages : BOOLEAN,
                 scanMaliciousCode : {TRUE}]
  /\ whitelistData = EmptyWhitelist
  /\ fs \in [Range(SubSeq(ProjectPaths, 1, MaxProjects)) -> ProjectSamples]
  /\ Constructed
  /\ pc = "idle"
  /\ call = NoCall
  /\ ret = NoRet

Next ==
  \/ \E P \in 0..MaxProjects : ScanProjects(P)
  \/ \E w \in DOMAIN thread : WorkerPost(w)
  \/ \E w \in DOMAIN thread : WorkerCrash(w)
  \/ \E w \in DOMAIN chan : HandleResult(w)
  \/ \E w \in DOMAIN chan : HandleError(w)
  \/ \E w \in DOMAIN chan : HandleExit(w)
  \/ \E t \in timers : HandleTimeout(t[1], t[2])

Spec == Init /\ [][Next]_vars

(***************************************************************************)
(* Scenario specifications of the batch                                    *)
(***************************************************************************)
\* Every pending event is eventually handled, every armed timer eventually
\* fires unless it is cleared, every scan that can return eventually does.
FairSpec == Spec /\ WF_vars(Next)

\* Scans that all return or throw within the timeout: no timer fires and no
\* worker thread dies.
TimelyInit == Init /\ \A p \in DOMAIN fs : ~fs[p].hangs

TimelyNext ==
  \/ \E P \in 0..MaxProjects : ScanProjects(P)
  \/ \E w \in DOMAIN thread : WorkerPost(w)
  \/ \E w \in DOMAIN chan : HandleResult(w)
  \/ \E w \in DOMAIN chan : HandleError(w)
  \/ \E w \in DOMAIN chan : HandleExit(w)

TimelySpec == TimelyInit /\ [][TimelyNext]_vars /\ WF_vars(TimelyNext)

\* The timer of a project fires only when its scan never returns; every other
\* scan returns or throws within the timeout.
HungTimeout(w, project) ==
  /\ fs[project].hangs
  /\ HandleTimeout(w, project)

HangNext ==
  \/ \E P \in 0..MaxProjects : ScanProjects(P)
  \/ \E w \in DOMAIN thread : WorkerPost(w)
  \/ \E w \in DOMAIN chan : HandleResult(w)
  \/ \E w \in DOMAIN chan : HandleError(w)
  \/ \E w \in DOMAIN chan : HandleExit(w)
  \/ \E t \in timers : HungTimeout(t[1], t[2])

HangSpec == Init /\ [][HangNext]_vars /\ WF_vars(HangNext)

(***************************************************************************)
(* Calls of the pure parts: PatternMatcher's whitelist and file scan        *)
(***************************************************************************)
AllVersions == [all |-> TRUE, hasRanges |-> FALSE, ranges |-> {}]
Ranges(r) == [all |-> FALSE, hasRanges |-> TRUE, ranges |-> r]
NoPolicy == [all |-> FALSE, hasRanges |-> FALSE, ranges |-> {}]

\* Entries of data/whitelist.json the model draws from
LibrarySamples ==
  { [name |-> <<"jspdf">>, patterns |-> << <<"jspdf">> >>, versions |-> AllVersions],
    [name |-> <<"html2canvas">>, patterns |-> << <<"html2canvas">> >>,
     versions |-> Ranges({<<"1.4.1">>})],
    [name |-> <<"react-git-info">>, patterns |-> << <<"GitInfo.macro.js">> >>,
     versions |-> NoPolicy] }

WhitelistSamples ==
  { [libraries |-> libs, versionChecks |-> [enabled |-> e]] :
      libs \in {<<>>} \cup {<<a>> : a \in LibrarySamples}
               \cup {<<a, b>> : a \in LibrarySamples, b \in LibrarySamples},
      e \in BOOLEAN }

\* Paths of files inside a project, relative to the project directory
FilePathSamples ==
  { <<"src", "/", "index.js">>,
    <<"vendor", "/", "jspdf", "/", "polyfills.js">>,
    <<"vendor", "/", "html2canvas", "/", "html2canvas.js">>,
    <<"node_modules", "/", "jspdf", "/", "dist", "/", "polyfills.js">>,
    <<"node_modules", "/", "html2canvas", "/", "1.4.1", "/", "html2canvas.js">>,
    <<"node_modules", "/", "html2canvas", "/", "0.9.0", "/", "html2canvas.js">>,
    <<"node_modules", "/", "react-git-info", "/", "src", "/", "GitInfo.macro.js">>,
    <<"node_modules", "/", "react-scripts", "/", "node_modules", "/", "jspdf", "/",
      "dist", "/", "polyfills.js">>,
    <<"node_modules", "/", "@", "scope", "/", "jspdf", "/", "2.5.1", "/", "index.js">>,
    <<".github", "/", "workflows", "/", "jspdf", "/", "ci.yml">> }

\* File contents: none, one signature, every signature literal of the rules
ContentSamples ==
  { <<>>,
    <<"benign">>,
    <<"window.fetch =">>,
    <<"checkethereumw", "0x12345678", "npmjs.help", "window.fetch =",
      "webhook.site/bb8ca5f6", "shai-hulud-workflow", "findings.json">> }

WhitelistInit ==
  /\ config = [maxConcurrency |-> 1, scanCompromisedPackages |-> TRUE,
               scanMaliciousCode |-> TRUE]
  /\ whitelistData \in WhitelistSamples
  /\ fs = << >>
  /\ Constructed
  /\ pc = "call"
  /\ call \in [op : {"isWhitelisted", "scanJavaScriptFiles"},
               projectPath : {<<"/w/a/app">>},
               rel : FilePathSamples,
               ext : {"js", "yaml"},
               content : ContentSamples]
  /\ ret = NoRet

\* suite.patternMatcher.isWhitelisted(filePath, projectPath)
CallIsWhitelisted ==
  /\ pc = "call"
  /\ call.op = "isWhitelisted"
  /\ ret' = [op |-> "isWhitelisted",
             index |-> isWhitelisted(whitelistData, PathJoin(call.projectPath, call.rel))]
  /\ pc' = "done"
  /\ UNCHANGED <<config, whitelistData, fs, projects, isScanning, queue, results, errors,
                 workerPool, activeWorkers, processedCount, totalProjects, timers, thread,
                 chan, exited, cleanupPending, returned, uncaught, call>>

\* patternMatcher.scanJavaScriptFiles(projectPath, iocs, ...) on a project
\* holding the one file of the call
CallScanJavaScriptFiles ==
  /\ pc = "call"
  /\ call.op = "scanJavaScriptFiles"
  /\ LET r == scanJavaScriptFiles(call.projectPath,
                 << [rel |-> call.rel, ext |-> call.ext, kind |-> "file",
                     content |-> call.content] >>,
                 EmptyIocs, whitelistData, FALSE, FALSE)
     IN ret' = [op |-> "scanJavaScriptFiles", issues |-> r.issues,
                filesScanned |-> r.filesScanned, evaluated |-> r.evaluated]
  /\ pc' = "done"
  /\ UNCHANGED <<config, whitelistData, fs, projects, isScanning, queue, results, errors,
                 workerPool, activeWorkers, processedCount, totalProjects, timers, thread,
                 chan, exited, cleanupPending, returned, uncaught, call>>

WhitelistNext ==
  \/ CallIsWhitelisted
  \/ CallScanJavaScriptFiles

WhitelistSpec == WhitelistInit /\ [][WhitelistNext]_vars

(***************************************************************************)
(* Calls of the pure parts: PackageScanner                                 *)
(***************************************************************************)
VersionTokens == {"^", "~", "5.6.1", "5.6.0", "4.4.2"}

RECURSIVE StringsUpTo(_)
StringsUpTo(n) ==
  IF n = 0 THEN {<<>>}
  ELSE StringsUpTo(n - 1)
       \cup {Append(v, t) : v \in {x \in StringsUpTo(n - 1) : Len(x) = n - 1},
                             t \in VersionTokens}

PackageNames == {"chalk", "debug", "left-pad", "constructor"}

PackageInit ==
  /\ config = [maxConcurrency |-> 1, scanCompromisedPackages |-> TRUE,
               scanMaliciousCode |-> TRUE]
  /\ whitelistData = EmptyWhitelist
  /\ fs = << >>
  /\ Constructed
  /\ pc = "call"
  /\ call \in [op : {"isVulnerableVersion"},
               packageName : PackageNames,
               version : StringsUpTo(MaxVerLen)]
  /\ ret = NoRet

\* packageScanner.isVulnerableVersion(packageName, version)
CallIsVulnerableVersion ==
  /\ pc = "call"
  /\ call.op = "isVulnerableVersion"
  /\ LET r == isVulnerableVersion(call.packageName, call.version)
     IN ret' = [op |-> "isVulnerableVersion", threw |-> r.threw, value |-> r.value]
  /\ pc' = "done"
  /\ UNCHANGED <<config, whitelistData, fs, projects, isScanning, queue, results, errors,
                 workerPool, activeWorkers, processedCount, totalProjects, timers, thread,
                 chan, exited, cleanupPending, returned, uncaught, call>>

PackageNext == CallIsVulnerableVersion

PackageSpec == PackageInit /\ [][PackageNext]_vars

(***************************************************************************)
(* Properties of ParallelScanner.scanProjects                              *)
(***************************************************************************)
ResultsOf(res, p) == {i \in 1..Len(res) : res[i].path = p}
ErrorsOf(errs, p) == {i \in 1..Len(errs) : errs[i].project = p}
TimedOut(errs, p) == \E i \in ErrorsOf(errs, p) : errs[i].error = "Worker timeout"
QueueDrained == pc \in {"cleanup", "returned"}

\* C1: when scanProjects returns, results.length + errors.length equals the
\* number P of input projects, and summary.scanned + summary.failed equals
\* summary.totalProjects, whatever the interleaving of results, errors and
\* timeouts was.
C1_CompletionCount ==
  returned.settled =>
    /\ Len(returned.results) + Len(returned.errors) = Len(projects)
    /\ returned.summary.scanned + returned.summary.failed
         = returned.summary.totalProjects
    /\ returned.summary.totalProjects = Len(projects)

\* C1 witness: a batch of two returned after one result and one timeout
C1_Witness ==
  /\ returned.settled
  /\ Len(projects) = 2
  /\ Len(returned.results) = 1
  /\ \E p \in Range(projects) : TimedOut(returned.errors, p)

\* A message of worker w that is delivered after w's timeout removed it from
\* the activeWorkers Map
LateMessage(w) ==
  /\ chan[w] # <<>>
  /\ Head(chan[w]).type \in {"result", "error"}
  /\ InfoIndex(activeWorkers, w, 1) = 0

\* C2: a result or error message delivered after its project's timeout fired is
\* discarded: nothing is added to results or errors, processedCount is not
\* incremented again, and the scan goes on.
C2_LateMessageDiscarded ==
  [][\A w \in DOMAIN chan :
       (LateMessage(w) /\ chan'[w] = Tail(chan[w]))
         => /\ results' = results
            /\ errors' = errors
            /\ processedCount' = processedCount
            /\ uncaught' = NULL
            /\ pc' = pc]_vars

\* C3: when the scan of one project never returns, once the queue is drained
\* that project is recorded in errors as a timeout and every other project of
\* the input has a result.
C3_TimeoutIsolation ==
  QueueDrained =>
    \A p \in Range(projects) :
      IF fs[p].hangs
      THEN TimedOut(errors, p) /\ ResultsOf(results, p) = {}
      ELSE ResultsOf(results, p) # {}

\* C4: the promise returned by scanProjects eventually settles in every run,
\* runs with timeouts or with workers that exited included.
C4_ScanSettles == <>(returned.settled)

\* C5: every input project contributes exactly one record to the returned
\* aggregate, in results or in errors, never in both and never twice.
C5_ExactlyOneRecord ==
  returned.settled =>
    \A p \in Range(projects) :
      Cardinality(ResultsOf(returned.results, p))
        + Cardinality(ErrorsOf(returned.errors, p)) = 1

\* C5 witness: a returned batch with one project in results and another in
\* errors because its scan threw
C5_Witness ==
  /\ returned.settled
  /\ \E p, q \in Range(projects) :
       /\ p # q
       /\ ResultsOf(returned.results, p) # {}
       /\ \E i \in ErrorsOf(returned.errors, q) : returned.errors[i].error = "TypeError"

\* Worker w's 'error' message for its assigned project is being handled
ErrorReported(w) ==
  /\ chan[w] # <<>>
  /\ Head(chan[w]).type = "error"
  /\ InfoIndex(activeWorkers, w, 1) # 0
  /\ activeWorkers[InfoIndex(activeWorkers, w, 1)].project # NULL
  /\ chan'[w] = Tail(chan[w])

\* After the step: w is still in the Map, idle or holding the project p
WorkerHolds(aw, w, p) ==
  \E j \in 1..Len(aw) :
    /\ aw[j].worker = w
    /\ \/ aw[j].status = "idle" /\ aw[j].project = NULL /\ ~aw[j].timeoutId
       \/ aw[j].status = "working" /\ aw[j].project = p /\ aw[j].timeoutId

C6_ErrorStep ==
  [][\A w \in DOMAIN chan :
       ErrorReported(w) =>
         LET p == activeWorkers[InfoIndex(activeWorkers, w, 1)].project
         IN /\ <<w, p>> \notin timers'
            /\ Len(errors') = Len(errors) + 1
            /\ SubSeq(errors', 1, Len(errors)) = errors
            /\ errors'[Len(errors')].project = p
            /\ errors'[Len(errors')].error = Head(chan[w]).error
            /\ results' = results
            /\ processedCount' = processedCount + 1
            /\ IF queue = <<>>
               THEN WorkerHolds(activeWorkers', w, NULL) /\ queue' = <<>>
               ELSE /\ queue' = Tail(queue)
                    /\ WorkerHolds(activeWorkers', w, Head(queue))
                    /\ \E j \in 1..Len(activeWorkers') :
                         /\ activeWorkers'[j].status = "working"
                         /\ activeWorkers'[j].project = Head(queue)
                         /\ <<activeWorkers'[j].worker, Head(queue)>> \in timers'
                         /\ thread'[activeWorkers'[j].worker].project = Head(queue)]_vars

\* C6: on a worker's 'error' message the orchestrator cancels the project's
\* timer, records {project, error}, keeps the same worker (idle, or already given
\* the next queued project) and goes on dispatching; in the end every project of
\* the batch is recorded, in results or in errors.
C6_ErrorIsolation ==
  /\ C6_ErrorStep
  /\ <>(/\ returned.settled
        /\ \A p \in Range(projects) :
             ResultsOf(returned.results, p) # {} \/ ErrorsOf(returned.errors, p) # {})

\* C6 witness: a batch returned with the error of one project and, recorded
\* after it by the same worker, the result of another
C6_Witness ==
  /\ returned.settled
  /\ Len(returned.errors) = 1
  /\ returned.errors[1].error = "TypeError"
  /\ \E i \in 1..Len(returned.results) :
       /\ returned.results[i].path = projects[2]
       /\ returned.errors[1].project = projects[1]
       /\ config.maxConcurrency = 1

\* C7: a project whose package.json is missing or not valid JSON is scanned to
\* a ProjectResult with no compromised packages: it is never put in errors
\* because its scan threw.
C7_ManifestProblemTolerated ==
  \A p \in Range(projects) :
    fs[p].packageJson.kind \in {"missing", "malformed"} =>
      /\ ~scanProject(config, whitelistData, p, fs[p]).threw
      /\ \A i \in ErrorsOf(errors, p) : errors[i].error # "TypeError"

(***************************************************************************)
(* Properties of the whitelist                                             *)
(***************************************************************************)
CalledPath == PathJoin(call.projectPath, call.rel)

\* Some whitelist entry with versions.all = true has a pattern matching filePath
MatchesAllVersionsEntry(filePath) ==
  \E i \in 1..Len(whitelistData.libraries) :
    /\ whitelistData.libraries[i].versions.all
    /\ \E k \in 1..Len(whitelistData.libraries[i].patterns) :
         Includes(filePath, whitelistData.libraries[i].patterns[k])

\* C8: a file whose path matches a whitelist entry with an all-versions policy
\* yields no findings whatever its content is, and no signature rule is
\* evaluated on it.
C8_AllVersionsExempt ==
  (pc = "done" /\ ret.op = "scanJavaScriptFiles" /\ MatchesAllVersionsEntry(CalledPath))
    => ret.issues = <<>> /\ ret.evaluated = <<>>

\* C9: with version checks enabled, an entry whose policy lists version ranges
\* exempts a file only when the path resolves to a package/version pair whose
\* version is one the policy accepts.
C9_RangePolicyFailsClosed ==
  (/\ pc = "done"
   /\ ret.op = "isWhitelisted"
   /\ whitelistData.versionChecks.enabled
   /\ ret.index # 0)
    => LET entry == initializeWhitelistPatterns(whitelistData.libraries)[ret.index]
           info == extractPackageInfoFromPath(CalledPath)
       IN (entry.library.versions.hasRanges /\ ~entry.library.versions.all)
            => ~info.isNull /\ info.version \in entry.library.versions.ranges

(***************************************************************************)
(* Properties of PackageScanner                                            *)
(***************************************************************************)
Listed(packageName) ==
  IF packageName \in DOMAIN vulnerableVersions THEN vulnerableVersions[packageName] ELSE {}

\* C10: isVulnerableVersion(name, declared) is true exactly when declared, with
\* at most one leading ^ or ~ removed, equals a version listed for name.
C10_ExactStringMatch ==
  pc = "done" =>
    ((~ret.threw /\ ret.value)
       <=> \E v \in Listed(call.packageName) :
             call.version \in {v, <<"^">> \o v, <<"~">> \o v})

\* C10 witness: the tilde-prefixed listed version of chalk is reported
C10_Witness ==
  /\ pc = "done"
  /\ call.packageName = "chalk"
  /\ call.version = <<"~", "5.6.1">>
  /\ ~ret.threw
  /\ ret.value

(***************************************************************************)
(* Calls of the pure parts: the content scans of PatternMatcher            *)
(***************************************************************************)
MaxContentLen == 2

\* Content tokens: text no rule matches, three 0x + 40-hex addresses (one of
\* them in mixed case), and literals of the fetch, webhook and file rules
ContentTokens ==
  {"benign", "0x12345678", "0xFc4a4858", "0xfc4a4858", "window.fetch =",
   "webhook.site/bb8ca5f6", "findings.json", "checkethereumw",
   "new WebSocket('wss://x')", "npmjs.help", "originalFetch.fetch.replace",
   "levenshtein distance address", "bundle.js trufflehog", "function runScanner(",
   "trufflehog.zip", "169.254.169.254", "shai-hulud-workflow", "process.env.NPM_TOKEN",
   "registry.npmjs.org/-/whoami", "api.github.com/user Authorization token GITHUB_TOKEN",
   "base64 -w0 curl -s -X POST", "execSync trufflehog filesystem"}

RECURSIVE ContentsUpTo(_)
ContentsUpTo(n) ==
  IF n = 0 THEN {<<>>}
  ELSE ContentsUpTo(n - 1)
       \cup {Append(c, t) : c \in {x \in ContentsUpTo(n - 1) : Len(x) = n - 1},
                             t \in ContentTokens}

\* iocs.cryptoAddresses as data/iocs.json may list them: none, an address in
\* lower case, the same address in mixed (checksum) case
IocSamples ==
  { [EmptyIocs EXCEPT !.cryptoAddresses = a] : a \in {{}, {"0xfc4a4858"}, {"0xFc4a4858"}} }
    \cup { [EmptyIocs EXCEPT !.webhookEndpoints = {"webhook.site/bb8ca5f6"}] }

ContentPathSamples ==
  { <<"/w/a/app", "/", "src", "/", "index.js">>,
    <<"/w/a/app", "/", ".github", "/", "workflows", "/", "ci.yml">>,
    <<"/w/a/app", "/", "config", "/", "ci.yml">> }

ContentInit ==
  /\ config = [maxConcurrency |-> 1, scanCompromisedPackages |-> TRUE,
               scanMaliciousCode |-> TRUE]
  /\ whitelistData = EmptyWhitelist
  /\ fs = << >>
  /\ Constructed
  /\ pc = "call"
  /\ call \in [op : {"scanFileContent", "scanYamlFileContent"},
               content : ContentsUpTo(MaxContentLen),
               filePath : ContentPathSamples,
               iocs : IocSamples]
  /\ ret = NoRet

\* patternMatcher.scanFileContent(content, filePath, projectPath, iocs)
CallScanFileContent ==
  /\ pc = "call"
  /\ call.op = "scanFileContent"
  /\ ret' = [op |-> "scanFileContent",
             issues |-> scanFileContent(call.content, call.filePath, call.iocs)]
  /\ pc' = "done"
  /\ UNCHANGED <<config, whitelistData, fs, projects, isScanning, queue, results, errors,
                 workerPool, activeWorkers, processedCount, totalProjects, timers, thread,
                 chan, exited, cleanupPending, returned, uncaught, call>>

\* patternMatcher.scanYamlFileContent(content, filePath, projectPath)
CallScanYamlFileContent ==
  /\ pc = "call"
  /\ call.op = "scanYamlFileContent"
  /\ ret' = [op |-> "scanYamlFileContent",
             issues |-> scanYamlFileContent(call.content, call.filePath)]
  /\ pc' = "done"
  /\ UNCHANGED <<config, whitelistData, fs, projects, isScanning, queue, results, errors,
                 workerPool, activeWorkers, processedCount, totalProjects, timers, thread,
                 chan, exited, cleanupPending, returned, uncaught, call>>

ContentNext ==
  \/ CallScanFileContent
  \/ CallScanYamlFileContent

ContentSpec == ContentInit /\ [][ContentNext]_vars

(***************************************************************************)
(* Properties of the content scans                                         *)
(***************************************************************************)
\* The content tokens that are 0x + 40 hex digits
AddressTokens == {"0x12345678", "0xFc4a4858", "0xfc4a4858"}

\* Case-insensitive membership of an address in the suspicious list
ListedAddress(address, iocs) ==
  \E l \in iocs.cryptoAddresses : ToLowerCase(l) = ToLowerCase(address)

AddressRelated(issues) ==
  {i \in 1..Len(issues) : issues[i].pattern \in {"Crypto Address Replacement",
                                                  "Suspicious Address"}}

\* C11: addresses that are not on the suspicious list produce no
\* address-related finding, and every occurrence of a listed address (compared
\* case-insensitively) produces exactly one address-membership finding.
C11_AddressMembership ==
  (pc = "done" /\ ret.op = "scanFileContent") =>
    LET listed == {k \in 1..Len(call.content) :
                     /\ call.content[k] \in AddressTokens
                     /\ ListedAddress(call.content[k], call.iocs)}
        membership == {i \in 1..Len(ret.issues) : ret.issues[i].pattern = "Suspicious Address"}
    IN /\ listed = {} => AddressRelated(ret.issues) = {}
       /\ Cardinality(membership) = Cardinality(listed)

(***************************************************************************)
(* Calls of the pure parts: the scan of one project directory              *)
(***************************************************************************)
MaxFiles == 2

File(rel, ext, kind, content) ==
  [rel |-> rel, ext |-> ext, kind |-> kind, content |-> content]

\* Directory entries a project may hold: plain sources, a workflow file and a
\* YAML file elsewhere with the same webhook literal, a test file, an entry
\* named like a source file that is a directory, a file without read permission
FileSamples ==
  { File(<<"src", "/", "index.js">>, "js", "file", <<"benign">>),
    File(<<"src", "/", "net.js">>, "js", "file", <<"window.fetch =", "benign">>),
    File(<<"src", "/", "app.test.js">>, "js", "file", <<"window.fetch =">>),
    File(<<"src", "/", "test.js">>, "js", "dir", <<>>),
    File(<<"src", "/", "locked.js">>, "js", "unreadable", <<"window.fetch =">>),
    File(<<".github", "/", "workflows", "/", "ci.yml">>, "yaml", "file",
         <<"webhook.site/bb8ca5f6">>),
    File(<<"config", "/", "ci.yml">>, "yaml", "file", <<"webhook.site/bb8ca5f6">>) }

\* Lists of distinct entries, in the order glob returns them
RECURSIVE FileListsUpTo(_)
FileListsUpTo(n) ==
  IF n = 0 THEN {<<>>}
  ELSE FileListsUpTo(n - 1)
       \cup {Append(l, f) : l \in {x \in FileListsUpTo(n - 1) : Len(x) = n - 1},
                             f \in FileSamples}

DistinctPaths(files) ==
  \A i, j \in 1..Len(files) : files[i].rel = files[j].rel => i = j

SafePackageJson ==
  [kind |-> "valid", dependencies |-> << [k |-> "left-pad", v |-> <<"1.3.0">>] >>,
   devDependencies |-> <<>>, peerDependencies |-> <<>>, wellFormed |-> TRUE]

MixedPackageJson ==
  [kind |-> "valid",
   dependencies |-> << [k |-> "chalk", v |-> <<"^", "5.6.1">>],
                       [k |-> "left-pad", v |-> <<"1.3.0">>] >>,
   devDependencies |-> << [k |-> "debug", v |-> <<"4.4.2">>] >>,
   peerDependencies |-> <<>>, wellFormed |-> TRUE]

\* {"dependencies": {"chalk": "5.6.1"}} and nothing else: no name, no version
ChalkOnlyPackageJson ==
  [kind |-> "valid", dependencies |-> << [k |-> "chalk", v |-> <<"5.6.1">>] >>,
   devDependencies |-> <<>>, peerDependencies |-> <<>>, wellFormed |-> FALSE]

\* chalk at a listed version in peerDependencies only
PeerPackageJson ==
  [kind |-> "valid", dependencies |-> << [k |-> "left-pad", v |-> <<"1.3.0">>] >>,
   devDependencies |-> <<>>,
   peerDependencies |-> << [k |-> "chalk", v |-> <<"5.6.1">>] >>, wellFormed |-> TRUE]

\* chalk at a listed version in dependencies and at another in devDependencies
TwiceDeclaredPackageJson ==
  [kind |-> "valid", dependencies |-> << [k |-> "chalk", v |-> <<"5.6.1">>] >>,
   devDependencies |-> << [k |-> "chalk", v |-> <<"5.3.0">>] >>,
   peerDependencies |-> <<>>, wellFormed |-> TRUE]

ManifestSamples ==
  {NoPackageJson, MalformedPackageJson, ChalkPackageJson, ChalkOnlyPackageJson,
   SafePackageJson, MixedPackageJson, PeerPackageJson, TwiceDeclaredPackageJson}

ProjectInit ==
  /\ config \in [maxConcurrency : {1},
                 scanCompromisedPackages : BOOLEAN,
                 scanMaliciousCode : BOOLEAN]
  /\ whitelistData = EmptyWhitelist
  /\ fs = << >>
  /\ Constructed
  /\ pc = "call"
  /\ call \in [op : {"WorkerScanner.scanProject", "NPMSecurityScanner.scanProject",
                     "cli"},
               projectPath : {"/w/a/app"},
               packageJson : ManifestSamples,
               files : {l \in FileListsUpTo(MaxFiles) : DistinctPaths(l)},
               includeTests : BOOLEAN,
               strict : BOOLEAN]
  /\ call.op = "cli" => call.packageJson.kind # "missing"
  /\ ret = NoRet

\* new WorkerScanner(config, logger).scanProject(projectPath). call.includeTests
\* is the --include-tests option: buildConfigOverrides turns it into
\* security.excludeTestFiles = false (without it the key is absent from the
\* defaults of Config); the scan reads security.scanCompromisedPackages and
\* security.scanMaliciousCode of the configuration and nothing else of it
CallWorkerScanProject ==
  /\ pc = "call"
  /\ call.op = "WorkerScanner.scanProject"
  /\ LET r == scanProject(config, whitelistData, call.projectPath,
                          [packageJson |-> call.packageJson, files |-> call.files,
                           hangs |-> FALSE])
     IN ret' = [op |-> call.op, threw |-> r.threw, error |-> r.error, value |-> r.value]
  /\ pc' = "done"
  /\ UNCHANGED <<config, whitelistData, fs, projects, isScanning, queue, results, errors,
                 workerPool, activeWorkers, processedCount, totalProjects, timers, thread,
                 chan, exited, cleanupPending, returned, uncaught, call>>

\* new NPMSecurityScanner(options).scanProject(projectPath)
CallMainScanProject ==
  /\ pc = "call"
  /\ call.op = "NPMSecurityScanner.scanProject"
  /\ LET r == NPMSecurityScanner_scanProject(config, whitelistData, call.projectPath,
                          [packageJson |-> call.packageJson, files |-> call.files,
                           hangs |-> FALSE])
     IN ret' = [op |-> call.op, threw |-> r.threw, error |-> r.error, value |-> r.value]
  /\ pc' = "done"
  /\ UNCHANGED <<config, whitelistData, fs, projects, isScanning, queue, results, errors,
                 workerPool, activeWorkers, processedCount, totalProjects, timers, thread,
                 chan, exited, cleanupPending, returned, uncaught, call>>

\* SecurityScannerCLI.hasHighSeverityIssues(results)
hasHighSeverityIssues(res) ==
  \/ \E i \in 1..Len(res.maliciousCode) :
       res.maliciousCode[i].severity \in {"HIGH", "CRITICAL"}
  \/ Len(res.compromisedPackages) > 0

\* The scan command on a directory that holds a package.json (isSingleProject):
\* handleCommand scans it with NPMSecurityScanner.scanProject, displays the
\* results and calls process.exit(1) only under --strict; an exception is caught
\* by the command's action, which calls process.exit(1). Otherwise the process
\* ends with code 0.
CallCli ==
  /\ pc = "call"
  /\ call.op = "cli"
  /\ LET r == NPMSecurityScanner_scanProject(config, whitelistData, call.projectPath,
                          [packageJson |-> call.packageJson, files |-> call.files,
                           hangs |-> FALSE])
     IN ret' = [op |-> call.op, threw |-> r.threw, error |-> r.error, value |-> r.value,
                exitCode |-> IF r.threw THEN 1
                             ELSE IF call.strict /\ hasHighSeverityIssues(r.value) THEN 1
                             ELSE 0]
  /\ pc' = "done"
  /\ UNCHANGED <<config, whitelistData, fs, projects, isScanning, queue, results, errors,
                 workerPool, activeWorkers, processedCount, totalProjects, timers, thread,
                 chan, exited, cleanupPending, returned, uncaught, call>>

ProjectNext ==
  \/ CallWorkerScanProject
  \/ CallMainScanProject
  \/ CallCli

ProjectSpec == ProjectInit /\ [][ProjectNext]_vars

(***************************************************************************)
(* Properties of the scan of one project                                   *)
(***************************************************************************)
ProjectScanned == pc = "done" /\ ~ret.threw /\ config.scanMaliciousCode

\* Findings of the returned ProjectResult attributed to the project's file rel
FindingsOn(rel) ==
  {i \in 1..Len(ret.value.maliciousCode) :
     ret.value.maliciousCode[i].file = PathJoin(<<call.projectPath>>, rel)}

InWorkflows(rel) == Includes(rel, <<".github", "/", "workflows", "/">>)

\* C12: a YAML file under .github/workflows/ that contains one webhook.site/<id>
\* literal yields exactly one HIGH webhook-exfiltration finding attributed to
\* it; a YAML file elsewhere with the same literal yields none.
C12_WorkflowScopedRules ==
  ProjectScanned =>
    \A k \in 1..Len(call.files) :
      LET f == call.files[k]
      IN (f.ext = "yaml" /\ f.kind = "file" /\ f.content = <<"webhook.site/bb8ca5f6">>)
           => IF InWorkflows(f.rel)
              THEN /\ Cardinality(FindingsOn(f.rel)) = 1
                   /\ \A i \in FindingsOn(f.rel) :
                        /\ ret.value.maliciousCode[i].pattern
                             = "Webhook Exfiltration in Workflow"
                        /\ ret.value.maliciousCode[i].severity = "HIGH"
              ELSE FindingsOn(f.rel) = {}

\* The project's listing holds exactly one readable source file with the fetch
\* override, and nothing else that any rule matches
OnlyFetchOverride(files) ==
  /\ \E k \in 1..Len(files) :
       /\ files[k].ext = "js"
       /\ files[k].kind = "file"
       /\ "window.fetch =" \in Range(files[k].content)
       /\ Range(files[k].content) \subseteq {"window.fetch =", "benign"}
       /\ \A j \in 1..Len(files) :
            j # k => (files[j].kind # "file" \/ files[j].content = <<"benign">>)

\* C13: a project whose only suspicious content is `window.fetch = ...' in one
\* source file yields exactly one finding, of the fetch-override rule and of
\* severity HIGH.
C13_FetchOverrideFinding ==
  (/\ pc = "done"
   /\ config.scanMaliciousCode
   /\ call.packageJson.kind = "valid"
   /\ OnlyFetchOverride(call.files))
    => /\ ~ret.threw
       /\ Len(ret.value.maliciousCode) = 1
       /\ ret.value.maliciousCode[1].pattern = "Fetch/XMLHttpRequest Override"
       /\ ret.value.maliciousCode[1].severity = "HIGH"

\* C13 witness: the project holding src/net.js next to a benign file
C13_Witness ==
  /\ pc = "done"
  /\ config.scanMaliciousCode
  /\ call.packageJson = SafePackageJson
  /\ Len(call.files) = 2
  /\ call.files[2].rel = <<"src", "/", "net.js">>
  /\ call.files[1].rel = <<"src", "/", "index.js">>
  /\ Len(ret.value.maliciousCode) = 1

\* C14: a project whose package.json declares only chalk 5.6.1 and which has no
\* source files yields exactly one compromised-package record {chalk, 5.6.1},
\* no findings, and packagesChecked = 1.
C14_ChalkOnlyProject ==
  (/\ pc = "done"
   /\ config.scanCompromisedPackages
   /\ call.packageJson.kind = "valid"
   /\ call.packageJson.dependencies = << [k |-> "chalk", v |-> <<"5.6.1">>] >>
   /\ call.packageJson.devDependencies = <<>>
   /\ call.files = <<>>)
    => /\ ~ret.threw
       /\ Len(ret.value.compromisedPackages) = 1
       /\ ret.value.compromisedPackages[1].package = "chalk"
       /\ ret.value.compromisedPackages[1].version = <<"5.6.1">>
       /\ ret.value.maliciousCode = <<>>
       /\ ret.value.packagesChecked = 1

\* C14 witness: the worker's scan of the project returned the chalk record
C14_Witness ==
  /\ pc = "done"
  /\ call.op = "WorkerScanner.scanProject"
  /\ config.scanCompromisedPackages
  /\ call.packageJson = ChalkOnlyPackageJson
  /\ call.files = <<>>
  /\ Len(ret.value.compromisedPackages) = 1
  /\ ret.value.packagesChecked = 1

(***************************************************************************)
(* Properties of the worker pool                                           *)
(***************************************************************************)
PoolBound == Min(config.maxConcurrency, Len(projects))
LiveWorkers == {w \in DOMAIN thread : thread[w].st # "dead"}
InProgress == {i \in 1..Len(activeWorkers) : activeWorkers[i].status = "working"}

C15_LiveBound ==
  /\ Cardinality(LiveWorkers) <= PoolBound
  /\ Cardinality(InProgress) <= PoolBound
  /\ Cardinality({w \in DOMAIN thread : thread[w].st = "scanning"}) <= PoolBound

\* C15: scanProjects starts exactly min(maxConcurrency, P) workers, and at every
\* moment the number of live workers, and so of projects in progress, is at most
\* that number, replacements of timed-out workers included.
C15_PoolSize ==
  /\ [](C15_LiveBound)
  /\ [][pc = "idle" /\ pc' # "idle"
          => /\ Cardinality(DOMAIN thread') = Min(config.maxConcurrency, Len(projects'))
             /\ (Len(projects') > 0 =>
                   /\ Len(workerPool') = Min(config.maxConcurrency, Len(projects'))
                   /\ Cardinality({w \in DOMAIN thread' : thread'[w].st # "dead"})
                        = Len(workerPool'))]_vars

\* C15 witness: two workers were started, one timed out and was replaced, and
\* two workers are live
C15_Witness ==
  /\ pc = "processing"
  /\ Len(workerPool) = 3
  /\ PoolBound = 2
  /\ Cardinality(LiveWorkers) = 2
  /\ \E i \in 1..Len(errors) : errors[i].error = "Worker timeout"

\* C16: by default the files matching the test-file patterns are not scanned for
\* malicious code, so a signature that occurs in a test file yields no finding;
\* with --include-tests they are scanned and their findings reported.
C16_TestFilesExcludedByDefault ==
  ProjectScanned =>
    \A k \in 1..Len(call.files) :
      LET f == call.files[k]
      IN (/\ f.ext = "js"
          /\ f.kind = "file"
          /\ IsTestPath(SplitSlash(f.rel))
          /\ "window.fetch =" \in Range(f.content))
           => IF call.includeTests
              THEN FindingsOn(f.rel) # {}
              ELSE FindingsOn(f.rel) = {}

\* C17: the command exits with a non-zero code exactly when the scan found a
\* HIGH or CRITICAL finding or a compromised package, and with zero on a clean
\* run.
C17_ExitCodeReflectsFindings ==
  (pc = "done" /\ ret.op = "cli" /\ ~ret.threw) =>
    (ret.exitCode # 0
       <=> \/ \E i \in 1..Len(ret.value.maliciousCode) :
                ret.value.maliciousCode[i].severity \in {"HIGH", "CRITICAL"}
           \/ ret.value.compromisedPackages # <<>>)

\* The candidates of the listing that can be read as text
ReadableCandidates ==
  {k \in 1..Len(call.files) :
     /\ call.files[k].kind = "file"
     /\ Globbed(call.files[k], call.files[k].ext, FALSE, FALSE)}

\* C18: a candidate that cannot be read as text (no read permission, or a
\* directory named like a source file) is skipped: the remaining files are
\* still scanned and the candidate is not counted in filesScanned.
C18_UnreadableSkipped ==
  ProjectScanned =>
    /\ ret.value.filesScanned = Cardinality(ReadableCandidates)
    /\ \A k \in ReadableCandidates :
         (call.files[k].ext = "js" /\ "window.fetch =" \in Range(call.files[k].content))
           => FindingsOn(call.files[k].rel) # {}

(***************************************************************************)
(* Configuration: new NPMSecurityScanner(options), then scan(directory)    *)
(***************************************************************************)
\* What fs.existsSync / fs.statSync / fs.accessSync report about a path
DirectoryKinds == {"dir", "file", "missing", "unreadable"}

MinTimeout == 1000
MinMemoryLimit == 100 * 1024 * 1024

\* the defaults of mergeWithDefaults (directory: process.cwd())
DefaultOptions ==
  [directory |-> "dir",
   logging |-> [level |-> "info"],
   output |-> [format |-> "both"],
   performance |-> [maxConcurrency |-> 1, timeout |-> 30000,
                    memoryLimit |-> 512 * 1024 * 1024]]

\* deepMerge(target, source): a key of source replaces the key of target,
\* nested objects are merged key by key
deepMerge(target, source) ==
  [k \in DOMAIN target |->
     IF k \notin DOMAIN source THEN target[k]
     ELSE IF k = "directory" THEN source[k]
     ELSE [j \in DOMAIN target[k] |->
             IF j \in DOMAIN source[k] THEN source[k][j] ELSE target[k][j]]]

mergeWithDefaults(userOptions) == deepMerge(DefaultOptions, userOptions)

\* Variant: only the directory is validated
validate_DirectoryOnly(options) ==
  IF options.directory = "missing" THEN "Directory does not exist"
  ELSE IF options.directory = "file" THEN "Path is not a directory"
  ELSE NULL

\* Config.validate(): the message of the Error it throws, NULL when it returns
validate(options) ==
  IF options.directory = "missing" THEN "Directory does not exist"
  ELSE IF options.directory = "file" THEN "Path is not a directory"
  ELSE IF options.logging.level \notin {"error", "warn", "info", "debug", "trace"}
    THEN "Invalid logging level"
  ELSE IF options.output.format \notin {"console", "json", "markdown", "both"}
    THEN "Invalid output format"
  ELSE IF options.performance.maxConcurrency < 1
    THEN "Max concurrency must be at least 1"
  ELSE IF options.performance.timeout < MinTimeout
    THEN "Timeout must be at least 1000ms"
  ELSE IF options.performance.memoryLimit < MinMemoryLimit
    THEN "Memory limit must be at least 100MB"
  ELSE NULL

\* Validator.validateDirectory(dirPath).errors, NULL when isValid
validateDirectory(dirPath) ==
  IF dirPath = "missing" THEN "Directory does not exist"
  ELSE IF dirPath = "file" THEN "Path is not a directory"
  ELSE IF dirPath = "unreadable" THEN "No read permission for directory"
  ELSE NULL

PerformanceSamples ==
  {[maxConcurrency |-> c] : c \in 0..MaxConcurrency}
    \cup {[timeout |-> t] : t \in {MinTimeout - 1, MinTimeout}}
    \cup {[memoryLimit |-> m] : m \in {MinMemoryLimit - 1, MinMemoryLimit}}
    \cup {[maxConcurrency |-> c, timeout |-> t] :
            c \in 0..MaxConcurrency, t \in {MinTimeout - 1, MinTimeout}}

OptionsSamples ==
  {[directory |-> d, performance |-> p] :
     d \in DirectoryKinds, p \in PerformanceSamples}
    \cup {[logging |-> [level |-> l], output |-> [format |-> f]] :
            l \in {"info", "loud"}, f \in {"json", "xml"}}

NoScan == [op |-> "scan", threw |-> FALSE, error |-> NULL, discovered |-> 0,
           workers |-> 0, scanned |-> 0]

ConfigInit ==
  /\ config = DefaultOptions
  /\ whitelistData = EmptyWhitelist
  /\ fs = << >>
  /\ Constructed
  /\ pc = "call"
  /\ call \in [op : {"scan"},
               options : OptionsSamples,
               directory : DirectoryKinds \cup {NULL},
               found : 0..MaxProjects]
  /\ ret = NoScan

\* new NPMSecurityScanner(options): this.config = new Config(options)
NewScanner ==
  /\ pc = "call"
  /\ LET options == mergeWithDefaults(call.options)
         error == validate(options)
     IN IF error # NULL
          THEN /\ pc' = "threw"
               /\ ret' = [ret EXCEPT !.threw = TRUE, !.error = error]
               /\ UNCHANGED config
          ELSE /\ pc' = "constructed"
               /\ config' = options
               /\ UNCHANGED ret
  /\ UNCHANGED <<whitelistData, fs, projects, isScanning, queue, results, errors,
                 workerPool, activeWorkers, processedCount, totalProjects, timers, thread,
                 chan, exited, cleanupPending, returned, uncaught, call>>

\* scan(directory) up to its first await: step 1, then discoverProjects is started
ScanStart ==
  /\ pc = "constructed"
  /\ LET targetDir == IF call.directory # NULL THEN call.directory ELSE config.directory
         error == validateDirectory(targetDir)
     IN IF error # NULL
          THEN /\ pc' = "threw"
               /\ ret' = [ret EXCEPT !.threw = TRUE, !.error = error]
          ELSE /\ pc' = "discovering"
               /\ UNCHANGED ret
  /\ UNCHANGED <<config, whitelistData, fs, projects, isScanning, queue, results, errors,
                 workerPool, activeWorkers, processedCount, totalProjects, timers, thread,
                 chan, exited, cleanupPending, returned, uncaught, call>>

\* scan(directory) after discoverProjects: steps 2 to 4, the strategy is chosen
\* and the workers of the parallel strategy are created
ScanDiscovered ==
  /\ pc = "discovering"
  /\ LET parallel == config.performance.maxConcurrency > 1 /\ call.found > 1
     IN /\ ret' = [ret EXCEPT !.discovered = call.found,
                              !.workers = IF parallel
                                            THEN Min(config.performance.maxConcurrency,
                                                     call.found)
                                            ELSE 0]
        /\ pc' = IF call.found = 0 THEN "done" ELSE "scanning"
  /\ UNCHANGED <<config, whitelistData, fs, projects, isScanning, queue, results, errors,
                 workerPool, activeWorkers, processedCount, totalProjects, timers, thread,
                 chan, exited, cleanupPending, returned, uncaught, call>>

\* scan(directory) after scanProjectsParallel / scanProjectsSequential: steps 5, 6
ScanFinished ==
  /\ pc = "scanning"
  /\ ret' = [ret EXCEPT !.scanned = ret.discovered]
  /\ pc' = "done"
  /\ UNCHANGED <<config, whitelistData, fs, projects, isScanning, queue, results, errors,
                 workerPool, activeWorkers, processedCount, totalProjects, timers, thread,
                 chan, exited, cleanupPending, returned, uncaught, call>>

ConfigNext ==
  \/ NewScanner
  \/ ScanStart
  \/ ScanDiscovered
  \/ ScanFinished

ConfigSpec == ConfigInit /\ [][ConfigNext]_vars

\* The options carry one of the errors of the claim
InvalidOptions ==
  \/ /\ "directory" \in DOMAIN call.options
     /\ call.options.directory \in {"missing", "file"}
  \/ /\ "performance" \in DOMAIN call.options
     /\ LET p == call.options.performance
        IN \/ "maxConcurrency" \in DOMAIN p /\ p.maxConcurrency < 1
           \/ "timeout" \in DOMAIN p /\ p.timeout < 1000
           \/ "memoryLimit" \in DOMAIN p /\ p.memoryLimit < 104857600

\* The directory handed to scan() does not exist or is not a directory
InvalidScanDirectory == call.directory \in {"missing", "file"}

NothingStarted == ret.discovered = 0 /\ ret.workers = 0 /\ ret.scanned = 0

\* C19: a configuration error (scan directory that does not exist or is not a
\* directory, maxConcurrency below 1, timeout or memory limit below its
\* minimum) is raised to the caller before any project is discovered, any
\* worker is spawned, or any file is scanned.
C19_ConfigErrorBeforeScan ==
  /\ (InvalidOptions /\ pc # "call")
       => (pc = "threw" /\ ret.threw /\ ret.error # NULL /\ NothingStarted)
  /\ (InvalidScanDirectory /\ pc \notin {"call", "constructed"})
       => (pc = "threw" /\ ret.threw /\ ret.error # NULL /\ NothingStarted)

C19_Witness ==
  /\ pc = "threw"
  /\ "performance" \in DOMAIN call.options
  /\ call.options.directory = "dir"
  /\ ret.error \in {"Max concurrency must be at least 1",
                    "Timeout must be at least 1000ms",
                    "Memory limit must be at least 100MB"}

(***************************************************************************)
(* Dispatch                                                                *)
(***************************************************************************)
IdleWorkers == {i \in 1..Len(activeWorkers) : activeWorkers[i].status = "idle"}

\* C20: whenever the orchestrator has finished handling an event (start of the
\* scan, a result, an error, a timeout), no worker is idle while the queue is
\* non-empty: every idle worker has been given one queued project, each
\* assignment arming a timeout timer for that worker and project.
C20_NoIdleWorkerWithQueuedWork ==
  pc = "processing" =>
    /\ ~(queue # <<>> /\ IdleWorkers # {})
    /\ \A i \in InProgress :
         /\ activeWorkers[i].timeoutId
         /\ <<activeWorkers[i].worker, activeWorkers[i].project>> \in timers

(***************************************************************************)
(* Worker slots                                                            *)
(***************************************************************************)
\* Status of the worker's entry in the activeWorkers Map, "none" without entry
SlotStatus(aw, w) ==
  IF InfoIndex(aw, w, 1) = 0 THEN "none" ELSE aw[InfoIndex(aw, w, 1)].status

SlotProject(aw, w) ==
  IF InfoIndex(aw, w, 1) = 0 THEN NULL ELSE aw[InfoIndex(aw, w, 1)].project

TimersOf(w) == {t \in timers : t[1] = w}

\* A working slot holds one project and its armed timer, an idle slot neither
SlotsConsistent ==
  \A i \in 1..Len(activeWorkers) :
    LET info == activeWorkers[i]
    IN IF info.status = "working"
       THEN /\ info.project # NULL
            /\ info.timeoutId
            /\ TimersOf(info.worker) = {<<info.worker, info.project>>}
       ELSE /\ info.project = NULL
            /\ ~info.timeoutId
            /\ TimersOf(info.worker) = {}

\* The moves of the slot of worker w in one step of the queue-processing phase
SlotMove(w) ==
  LET from == SlotStatus(activeWorkers, w)
      to == SlotStatus(activeWorkers', w)
  IN \/ from = to /\ SlotProject(activeWorkers, w) = SlotProject(activeWorkers', w)
     \/ from = "none" /\ to = "idle"
     \/ /\ from \in {"none", "idle"} /\ to = "working"
        /\ queue # <<>>
        /\ SlotProject(activeWorkers', w) = Head(queue)
     \/ /\ from = "working" /\ to = "idle"
        /\ chan[w] # <<>>
        /\ Head(chan[w]).type \in {"result", "error"}
        /\ thread[w].st # "dead"
     \* the handler of the result or error hands the next project to the worker
     \/ /\ from = "working" /\ to = "working"
        /\ chan[w] # <<>>
        /\ Head(chan[w]).type \in {"result", "error"}
        /\ thread[w].st # "dead"
        /\ queue # <<>>
        /\ SlotProject(activeWorkers', w) = Head(queue)
     \/ /\ from = "working" /\ to = "none"
        /\ <<w, SlotProject(activeWorkers, w)>> \in timers \ timers'
        /\ thread'[w].st = "dead"
        /\ \E n \in DOMAIN thread' \ DOMAIN thread : SlotStatus(activeWorkers', n) # "none"

C21_Step ==
  (pc = "processing" /\ pc' = "processing") => \A w \in DOMAIN thread' : SlotMove(w)

\* C21: each worker slot moves only along idle -> working (on assignment),
\* working -> idle (on a result or a caught in-worker error, the same worker
\* surviving) and working -> terminated -> replaced by a new idle worker (on
\* timeout); a working slot holds exactly one project and one armed timer, an
\* idle slot holds no project and no armed timer, and a working worker is never
\* assigned another project before it has finished.
C21_SlotStateMachine ==
  [][C21_Step /\ (pc' = "processing" => SlotsConsistent')]_vars

Recorded(p) == ResultsOf(results, p) # {} \/ ErrorsOf(errors, p) # {}

\* C22: when a worker's result or error message is handled, that project's
\* timeout timer is cancelled: no timer stays armed for a project whose result
\* or error has been recorded, so no timeout is recorded for such a project, and
\* every armed timer of a worker that is in the pool belongs to the project the
\* worker holds now, not to one it has finished.
C22_TimerCancelledOnRecord ==
  /\ \A t \in timers :
       /\ ~Recorded(t[2])
       /\ SlotStatus(activeWorkers, t[1]) # "none"
            => SlotProject(activeWorkers, t[1]) = t[2]
  /\ \A q \in Range(projects) :
       TimedOut(errors, q)
         => ResultsOf(results, q) = {} /\ Cardinality(ErrorsOf(errors, q)) = 1

\* C22 witness: a worker whose first project is recorded holds a second project;
\* only the timer of the second is armed
C22_Witness ==
  /\ pc = "processing"
  /\ Len(activeWorkers) = 1
  /\ \E i \in 1..Len(activeWorkers) :
       /\ activeWorkers[i].status = "working"
       /\ \E j \in 1..Len(results) :
            /\ results[j].workerId = activeWorkers[i].workerId
            /\ results[j].path # activeWorkers[i].project
       /\ TimersOf(activeWorkers[i].worker)
            = {<<activeWorkers[i].worker, activeWorkers[i].project>>}

(***************************************************************************)
(* Death of a worker thread                                                *)
(***************************************************************************)
\* A timer fires only when the scan it guards cannot finish any more: the scan
\* never returns, or the thread is dead.
DeadTimeout(w, project) ==
  /\ \/ thread[w].st = "dead"
     \/ thread[w].st = "scanning" /\ fs[thread[w].project].hangs
  /\ HandleTimeout(w, project)

CrashNext ==
  \/ \E P \in 0..MaxProjects : ScanProjects(P)
  \/ \E w \in DOMAIN thread : WorkerPost(w)
  \/ \E w \in DOMAIN thread : WorkerCrash(w)
  \/ \E w \in DOMAIN chan : HandleResult(w)
  \/ \E w \in DOMAIN chan : HandleError(w)
  \/ \E w \in DOMAIN chan : HandleExit(w)
  \/ \E t \in timers : DeadTimeout(t[1], t[2])

CrashSpec == Init /\ [][CrashNext]_vars /\ WF_vars(CrashNext)

\* The 'error' event of worker w, dead of an uncaught exception while it held
\* project p, is waiting to be handled
DiedHolding(w, p) ==
  /\ w \in DOMAIN chan
  /\ chan[w] # <<>>
  /\ Head(chan[w]).type = "uncaught"
  /\ SlotProject(activeWorkers, w) = p

\* The 'exit' event of worker w is waiting while its slot holds project p
ExitedHolding(w, p) ==
  /\ w \in DOMAIN chan
  /\ chan[w] # <<>>
  /\ Head(chan[w]).type = "exit"
  /\ SlotStatus(activeWorkers, w) = "working"
  /\ SlotProject(activeWorkers, w) = p

AllRecorded == \A q \in Range(projects) : Recorded(q)

\* C23: if a worker thread dies with an uncaught exception, or exits, while a
\* project is assigned to it, that project contributes an error record instead
\* of a result and the batch continues: every project still in the queue is
\* subsequently dispatched and recorded.
C23_DeathRecordedBatchContinues ==
  \A p \in Range(ProjectPaths) : \A w \in 0..(2 * MaxProjects) :
    (pc = "processing" /\ (DiedHolding(w, p) \/ ExitedHolding(w, p)))
      ~> (/\ ErrorsOf(errors, p) # {}
          /\ ResultsOf(results, p) = {}
          /\ queue = <<>>
          /\ AllRecorded)

Remaining == SubSeq(projects, Len(projects) - Len(queue) + 1, Len(projects))

Assigned == {activeWorkers[i].project : i \in InProgress}

\* One step of the queue: nothing, or its head goes to a worker that held no
\* project or had finished its own
C25_Step ==
  pc = "processing" =>
    /\ queue' = queue \/ (queue # <<>> /\ queue' = Tail(queue))
    /\ \A w \in DOMAIN thread' :
         LET now == SlotProject(activeWorkers', w)
         IN (now # NULL /\ now # SlotProject(activeWorkers, w))
              => (queue # <<>> /\ now = Head(queue) /\ queue' = Tail(queue))

\* C25: projects are taken from the queue in input (FIFO) order, and each input
\* project is assigned to a worker at most once: a project is never dispatched
\* twice and is never put back on the queue after an error or a timeout.
C25_FifoAssignedOnce ==
  [][/\ C25_Step
     /\ (pc' \in {"processing", "cleanup", "returned"} =>
           /\ Len(queue') <= Len(projects')
           /\ queue' = Remaining'
           /\ \A q \in Range(queue') : ~Recorded(q)' /\ q \notin Assigned'
           /\ \A q \in Assigned' : ~Recorded(q)'
           /\ Cardinality(Assigned') = Cardinality(InProgress'))]_vars

\* C25 witness: the first project of a batch of two is recorded as an error and
\* the second, taken from the queue after it, is held by a worker
C25_Witness ==
  /\ pc = "processing"
  /\ Len(projects) = 2
  /\ queue = <<>>
  /\ ErrorsOf(errors, projects[1]) # {}
  /\ Assigned = {projects[2]}

(***************************************************************************)
(* Sections of package.json                                                *)
(***************************************************************************)
\* Names declared at a listed vulnerable version in a section of package.json
DeclaredVulnerable(section) ==
  {section[i].k : i \in {j \in 1..Len(section) :
                           CleanVersion(section[j].v) \in Listed(section[j].k)}}

\* C26: the package scan checks the union of dependencies, devDependencies and,
\* where present, peerDependencies: a package declared at a listed vulnerable
\* version in any one of the three sections yields a compromised-package record
\* for it.
C26_EverySectionChecked ==
  (/\ pc = "done"
   /\ ~ret.threw
   /\ config.scanCompromisedPackages
   /\ call.packageJson.kind = "valid")
    => \A name \in DeclaredVulnerable(call.packageJson.dependencies)
                     \cup DeclaredVulnerable(call.packageJson.devDependencies)
                     \cup DeclaredVulnerable(call.packageJson.peerDependencies) :
         \E i \in 1..Len(ret.value.compromisedPackages) :
           ret.value.compromisedPackages[i].package = name

(***************************************************************************)
(* Static signature rules                                                  *)
(***************************************************************************)
\* Positions of the content where the rule's pattern matches
MatchesOf(content, rule) == {k \in 1..Len(content) : content[k] \in rule.lexemes}

Naming(issues, name) == {j \in 1..Len(issues) : issues[j].pattern = name}

\* An IOC-derived rule carries the same name as the static rule
SameNameDynamicRule(iocs, name) ==
  \E d \in 1..Len(createDynamicPatterns(iocs)) : createDynamicPatterns(iocs)[d].name = name

\* C27: for every static signature rule, scanning content that contains text
\* matching that rule's pattern returns one finding naming that rule, with the
\* rule's severity and the total number of matches of that rule in the file
\* (a second finding of that name comes only from an IOC-derived rule of the
\* same name).
C27_OneFindingPerStaticRule ==
  (pc = "done" /\ ret.op = "scanFileContent") =>
    \A i \in 1..Len(initializePatterns) :
      LET rule == initializePatterns[i]
          total == Cardinality(MatchesOf(call.content, rule))
          named == Naming(ret.issues, rule.name)
      IN /\ total = 0 => (~SameNameDynamicRule(call.iocs, rule.name) => named = {})
         /\ total > 0 =>
              /\ \E j \in named : /\ ret.issues[j].severity = rule.severity
                                  /\ ret.issues[j].matches = total
              /\ ~SameNameDynamicRule(call.iocs, rule.name) => Cardinality(named) = 1

\* C27 witness: a file with two webhook.site URLs scanned without IOC lists gives
\* one Webhook Exfiltration Endpoint finding counting both
C27_Witness ==
  /\ pc = "done"
  /\ ret.op = "scanFileContent"
  /\ call.content = <<"webhook.site/bb8ca5f6", "webhook.site/bb8ca5f6">>
  /\ call.iocs = EmptyIocs
  /\ Len(ret.issues) = 1
  /\ ret.issues[1].pattern = "Webhook Exfiltration Endpoint"
  /\ ret.issues[1].matches = 2

(***************************************************************************)
(* Counters                                                                *)
(***************************************************************************)
\* C28: at every point during scanProjects, processedCount equals
\* results.length + errors.length and never exceeds totalProjects, and
\* processedCount + (number of workers in state working) + queue.length equals
\* totalProjects.
C28_CountersConsistent ==
  pc \in {"processing", "cleanup"} =>
    /\ processedCount = Len(results) + Len(errors)
    /\ processedCount <= totalProjects
    /\ processedCount + Cardinality(InProgress) + Len(queue) = totalProjects

(***************************************************************************)
(* Several calls of scanProjects on one ParallelScanner                    *)
(***************************************************************************)
MaxCalls == 2

\* What the caller of scanProjects sees at once: the promise is rejected with
\* error, or the call is under way
RejectedWith(error) == [op |-> "scanProjects", threw |-> TRUE, error |-> error]
Accepted == [op |-> "scanProjects", threw |-> FALSE, error |-> NULL]

\* Variant: the flag is not looked at
AlreadyRunning_Never == FALSE

\* if (this.isScanning) throw new Error('Scanner is already running')
AlreadyRunning == isScanning

\* initializeWorkerPool: n more workers at the end of workerPool and of the Map;
\* the Worker objects no longer referenced by workerPool are dropped
NewWorkers(n) ==
  LET base == Len(workerPool)
      ids == {base + i : i \in 0..(n - 1)}
      kept == Range(workerPool)
  IN [workerPool |-> workerPool \o [i \in 1..n |-> base + i - 1],
      activeWorkers |-> activeWorkers \o [i \in 1..n |-> IdleInfo(base + i - 1, -1)],
      thread |-> [w \in kept \cup ids |->
                    IF w \in ids THEN [st |-> "ready", project |-> NULL] ELSE thread[w]],
      chan |-> [w \in kept \cup ids |-> IF w \in ids THEN <<>> ELSE chan[w]]]

RepeatInit ==
  /\ config \in [maxConcurrency : 1..MaxConcurrency,
                 scanCompromisedPackages : {TRUE},
                 scanMaliciousCode : {TRUE}]
  /\ whitelistData = EmptyWhitelist
  /\ fs \in [Range(SubSeq(ProjectPaths, 1, MaxProjects)) -> ProjectSamples]
  /\ Constructed
  /\ pc = "idle"
  /\ call = [op |-> "scanProjects", count |-> 0]
  /\ ret = NoRet

\* scanProjects(projects), first or later call, up to its first suspension
CallScanProjects(P) ==
  /\ pc # "crashed"
  /\ call.count < MaxCalls
  /\ call' = [call EXCEPT !.count = @ + 1]
  /\ UNCHANGED <<config, whitelistData, fs, uncaught>>
  /\ IF AlreadyRunning
     THEN /\ ret' = RejectedWith("Scanner is already running")
          /\ UNCHANGED <<pc, projects, isScanning, queue, results, errors, workerPool,
                         activeWorkers, processedCount, totalProjects, timers, thread, chan,
                         exited, cleanupPending, returned>>
     ELSE LET input == SubSeq(ProjectPaths, 1, P)
              n == NewWorkers(Min(config.maxConcurrency, P))
              a == assignWork(input, n.activeWorkers, timers, n.thread, 0, P)
              t == TerminateAll(a.thread, n.chan, n.workerPool)
          IN /\ ret' = Accepted
             /\ projects' = input
             /\ results' = <<>>
             /\ errors' = <<>>
             /\ processedCount' = 0
             /\ totalProjects' = P
             /\ queue' = a.queue
             /\ timers' = a.timers
             /\ exited' = {}
             /\ IF a.resolved
                THEN /\ thread' = t.thread
                     /\ chan' = t.chan
                     /\ IF n.workerPool = <<>>
                        THEN /\ pc' = "returned"
                             /\ cleanupPending' = {}
                             /\ workerPool' = <<>>
                             /\ activeWorkers' = <<>>
                             /\ isScanning' = FALSE
                             /\ returned' = Aggregate(<<>>, <<>>)
                        ELSE /\ pc' = "cleanup"
                             /\ cleanupPending' = Range(n.workerPool)
                             /\ workerPool' = n.workerPool
                             /\ activeWorkers' = a.activeWorkers
                             /\ isScanning' = TRUE
                             /\ returned' = NotSettled
                ELSE /\ thread' = a.thread
                     /\ chan' = n.chan
                     /\ pc' = "processing"
                     /\ cleanupPending' = {}
                     /\ workerPool' = n.workerPool
                     /\ activeWorkers' = a.activeWorkers
                     /\ isScanning' = TRUE
                     /\ returned' = NotSettled

\* scanProjects(projects) when new Worker(...) throws in initializeWorkerPool
\* after k workers were created: catch, finally, and the promise is rejected
InitFails(P, k) ==
  /\ pc # "crashed"
  /\ ~AlreadyRunning
  /\ call.count < MaxCalls
  /\ k < Min(config.maxConcurrency, P)
  /\ call' = [call EXCEPT !.count = @ + 1]
  /\ ret' = RejectedWith("ERR_WORKER_INIT_FAILED")
  /\ projects' = SubSeq(ProjectPaths, 1, P)
  /\ results' = <<>>
  /\ errors' = <<>>
  /\ queue' = SubSeq(ProjectPaths, 1, P)
  /\ workerPool' = NewWorkers(k).workerPool
  /\ activeWorkers' = NewWorkers(k).activeWorkers
  /\ thread' = NewWorkers(k).thread
  /\ chan' = NewWorkers(k).chan
  /\ isScanning' = FALSE
  /\ pc' = "rejected"
  /\ returned' = NotSettled
  /\ exited' = {}
  /\ UNCHANGED <<config, whitelistData, fs, uncaught, processedCount, totalProjects,
                 timers, cleanupPending>>

RepeatNext ==
  \/ \E P \in 0..MaxProjects : CallScanProjects(P)
  \/ \E P \in 1..MaxProjects : \E k \in 0..(MaxConcurrency - 1) : InitFails(P, k)
  \/ \E w \in DOMAIN thread : WorkerPost(w)
  \/ \E w \in DOMAIN chan : HandleResult(w)
  \/ \E w \in DOMAIN chan : HandleError(w)
  \/ \E w \in DOMAIN chan : HandleExit(w)
  \/ \E t \in timers : HungTimeout(t[1], t[2])

RepeatSpec == RepeatInit /\ [][RepeatNext]_vars

CallMade == call'.count # call.count

\* C29: a call to scanProjects made while a scan is in progress on the same
\* ParallelScanner is rejected with 'Scanner is already running' without
\* altering the running scan's queue, results, errors or isScanning flag;
\* isScanning is false again once the running call has settled (resolved or
\* rejected), so a later call is accepted.
C29_RejectedWhileRunning ==
  [][/\ (CallMade /\ isScanning) =>
          /\ ret' = RejectedWith("Scanner is already running")
          /\ UNCHANGED <<queue, results, errors, isScanning, projects, processedCount,
                         totalProjects, workerPool, activeWorkers, timers, pc>>
     /\ (pc' \in {"returned", "rejected"}) => ~isScanning'
     /\ (CallMade /\ pc \in {"returned", "rejected"}) =>
          ret'.error # "Scanner is already running"]_vars

\* C29 witness: a second call was rejected while the first had one result and a
\* project in progress
C29_Witness ==
  /\ call.count = 2
  /\ ret = RejectedWith("Scanner is already running")
  /\ pc = "processing"
  /\ Len(results) = 1
  /\ InProgress # {}

\* C30: no state leaks from one scanProjects call into the next on the same
\* ParallelScanner: every accepted call starts with empty results, errors and
\* worker pool, works on exactly its own input with processedCount = 0, and
\* creates min(maxConcurrency, number of projects) workers of its own, whether
\* the previous call resolved or was rejected.
C30_NoLeakBetweenCalls ==
  [][(CallMade /\ ret' = Accepted) =>
        /\ workerPool = <<>>
        /\ activeWorkers = <<>>
        /\ timers = {}
        /\ results' = <<>>
        /\ errors' = <<>>
        /\ processedCount' = 0
        /\ totalProjects' = Len(projects')
        /\ Len(queue') + Cardinality(InProgress') = Len(projects')
        /\ \E n \in 0..Len(projects') : queue' = SubSeq(projects', n + 1, Len(projects'))
        /\ Len(workerPool') = Min(config.maxConcurrency, Len(projects'))]_vars

====
